---- MODULE Spec2Model ----
(***************************************************************************)
(* Model of the knee-buddy-coach sensor pipeline.                          *)
(*                                                                         *)
(* Part 1: BluetoothService (connection manager, reconnection policy,     *)
(*         subscriber registries, packet dispatch).                        *)
(* Part 2: SensorDataMapper (calibration, smoothing, processSensorPacket). *)
(*                                                                         *)
(* JavaScript runs the service on one thread: every action below is one    *)
(* run-to-completion segment of a handler, from its entry or from the      *)
(* await it was suspended on to its next await or its return.              *)
(***************************************************************************)
EXTENDS Integers, Sequences, FiniteSets, TLC

VARIABLES
    device,              \* this.device # null
    gattConnected,       \* this.device.gatt.connected
    disconnectListeners, \* 'gattserverdisconnected' listeners added to the device
    characteristic,      \* this.characteristic # null
    notifying,           \* notifications started on the GATT characteristic
    charListeners,       \* 'characteristicvaluechanged' listeners on the characteristic object
    reconnectAttempts,   \* this.reconnectAttempts
    reconnectTimeout,    \* this.reconnectTimeout: "null", "live" (pending timer), "stale" (fired timer)
    orphanTimers,        \* pending reconnect timers whose handle was overwritten
    state,               \* this.state
    stateCallbacks,      \* this.stateCallbacks
    dataCallbacks,       \* this.dataCallbacks
    ops,                 \* async calls suspended on an await
    seen,                \* per registered state callback: the state it was last called with
    outcome,             \* what the last notification decoded to
    previousFailed,      \* the notification before that one failed to decode
    unsubscribed,        \* data callbacks removed by their handle and not registered since
    emitted,             \* states passed to state subscribers by the last step
    delivered,           \* data callbacks invoked by the last step, in order
    dropLog,             \* onDisconnected runs since the last successful connect()
    event,               \* the last step taken
    calibrationOffsets,  \* SensorDataMapper.calibrationOffsets
    smoothingBuffer,     \* SensorDataMapper.smoothingBuffer
    packet,              \* sensors object of the packet handed to the data subscribers
    original,            \* the readings that packet was decoded with
    results,             \* values returned by processSensorPacket for that packet
    samples,             \* readings pushed into each smoothing window so far
    mevent,              \* the last mapper step taken
    sensorHistory,       \* GaitAnalyzer.sensorHistory
    weightHistory,       \* GaitAnalyzer.weightHistory
    lastPelvisPitch,     \* GaitAnalyzer.lastPelvisPitch
    stepCount,           \* GaitAnalyzer.stepCount
    given,               \* the argument of the last analyzer call
    returned,            \* the value returned by the last analyzer call
    gevent,              \* the last analyzer step taken
    definition,          \* exerciseDefinitions[id].targetAngle of the exercise played
    exercisePhase,       \* ExercisePlayer state: exercisePhase
    isSensorConnected,   \* ExercisePlayer state: isSensorConnected
    repState,            \* ExercisePlayer state: repState
    currentSet,          \* ExercisePlayer state: currentSet
    currentRep,          \* ExercisePlayer state: currentRep
    lastKneeAngle,       \* ExercisePlayer state: lastKneeAngle
    sensorData,          \* ExercisePlayer state: sensorData
    subscribed,          \* the state values the subscribed data callback closes over
    continuations,       \* import(...).then callbacks not yet run, oldest first
    exceeded,            \* an angle above extendedThreshold was fed since the last counted rep
    counted,             \* the last player step ran the "Count a rep!" branch
    field,               \* the JSON value handed to parseQuaternion
    decoded              \* what parseQuaternion returned for it

btVars == <<device, gattConnected, disconnectListeners, characteristic, notifying,
            charListeners, reconnectAttempts, reconnectTimeout, orphanTimers, state,
            stateCallbacks, dataCallbacks, ops, seen, outcome, previousFailed,
            unsubscribed, emitted,
            delivered, dropLog, event>>

mapperVars == <<calibrationOffsets, smoothingBuffer, packet, original, results,
                samples, mevent>>

gaitVars == <<sensorHistory, weightHistory, lastPelvisPitch, stepCount, given,
              returned, gevent>>

playerVars == <<definition, exercisePhase, isSensorConnected, repState, currentSet,
                currentRep, lastKneeAngle, sensorData, subscribed, continuations,
                exceeded, counted>>

codecVars == <<field, decoded>>

vars == <<btVars, mapperVars, gaitVars, playerVars, codecVars>>

----------------------------------------------------------------------------
(* Bounds of the model *)

MaxInFlight == 1      \* async calls suspended at the same time
MaxListeners == 2     \* listeners counted on one DOM object
MaxTimers == 2        \* reconnect timers pending at the same time
MaxSubs == 2          \* registrations in one subscriber registry
MaxProcess == 2       \* processSensorPacket calls on one packet object
MaxSamples == 2       \* readings pushed into one smoothing window
MaxDepth == 0         \* interpolations nested in a reading that is processed again

StateCbs == {"s1"}
DataCbs == {"d1", "d2"}

----------------------------------------------------------------------------
(* Helpers *)

Range(s) == {s[i] : i \in DOMAIN s}

Min(a, b) == IF a < b THEN a ELSE b

Last(s) == s[Len(s)]

RECURSIVE Pow2(_)
Pow2(n) == IF n = 0 THEN 1 ELSE 2 * Pow2(n - 1)

\* Array.prototype.filter(cb => cb # callback)
RECURSIVE Filter(_, _)
Filter(s, cb) ==
    IF s = <<>> THEN <<>>
    ELSE IF Head(s) = cb THEN Filter(Tail(s), cb)
         ELSE <<Head(s)>> \o Filter(Tail(s), cb)

----------------------------------------------------------------------------
(* BluetoothService: fields *)

maxReconnectAttempts == 5

DEVICE_NAME == "RehabSensor_001"

Undefined == "undefined"

\* label of the steps no property singles out
Step == "step"

InitialState ==
    [isConnected |-> FALSE, isConnecting |-> FALSE,
     deviceName |-> Undefined, error |-> Undefined]

\* updateState: this.state = { ...this.state, ...updates }
updateState(s, updates) ==
    [f \in DOMAIN s |-> IF f \in DOMAIN updates THEN updates[f] ELSE s[f]]

getConnectionState == state

PendingTimers == orphanTimers + (IF reconnectTimeout = "live" THEN 1 ELSE 0)

\* Math.min(1000 * Math.pow(2, this.reconnectAttempts), 10000)
\* variant: the exponential backoff without its 10 s cap
ReconnectDelayUncapped(attempts) == 1000 * Pow2(attempts)

ReconnectDelay(attempts) == Min(1000 * Pow2(attempts), 10000)

----------------------------------------------------------------------------
(* The fields a handler segment may change, threaded through the calls it  *)
(* makes: st = this.state, em = states passed to the state subscribers,    *)
(* ra = reconnectAttempts, rt = reconnectTimeout, orph = orphanTimers,     *)
(* log = dropLog.  Of the toasts only the terminal "Reconnection Failed"   *)
(* one is recorded, in dropLog.                                            *)

Sv ==
    [st |-> state, em |-> <<>>, ra |-> reconnectAttempts, rt |-> reconnectTimeout,
     orph |-> orphanTimers, log |-> dropLog]

\* this.updateState(updates): merge, then call every state subscriber
Upd(sv, updates) ==
    [sv EXCEPT !.st = updateState(sv.st, updates),
               !.em = Append(sv.em, updateState(sv.st, updates))]

TerminalDrop == maxReconnectAttempts + 1

LogAppend(log, entry) == IF Len(log) < TerminalDrop THEN Append(log, entry) ELSE log

\* this.reconnectTimeout = window.setTimeout(..., delay): the handle stored
\* before, if its timer is still pending, is overwritten and the timer orphaned
ScheduleReconnect(sv, delay) ==
    [sv EXCEPT !.rt = "live",
               !.orph = sv.orph + (IF sv.rt = "live" THEN 1 ELSE 0),
               !.log = LogAppend(sv.log, [delay |-> delay, terminal |-> FALSE])]

\* toast "Reconnection Failed": the terminal notification, no timer
ToastReconnectionFailed(sv) ==
    [sv EXCEPT !.log = LogAppend(sv.log, [delay |-> 0, terminal |-> TRUE])]

\* private async onDisconnected(): it has no await, so it runs to completion
onDisconnected(sv) ==
    LET lost == Upd(sv, [isConnected |-> FALSE, isConnecting |-> FALSE,
                         error |-> "Device disconnected"])
    IN  IF sv.ra < maxReconnectAttempts
        THEN [ScheduleReconnect(lost, ReconnectDelay(sv.ra)) EXCEPT !.ra = sv.ra + 1]
        ELSE ToastReconnectionFailed(lost)

\* dispatch of 'gattserverdisconnected': every registered listener runs
RECURSIVE dispatchDisconnected(_, _)
dispatchDisconnected(sv, n) ==
    IF n = 0 THEN sv ELSE dispatchDisconnected(onDisconnected(sv), n - 1)

\* the state subscribers are called with every state in sv.em, in order;
\* no data subscriber is called
Commit(sv) ==
    /\ delivered' = <<>>
    /\ state' = sv.st
    /\ emitted' = sv.em
    /\ seen' = IF sv.em = <<>> THEN seen
               ELSE [cb \in DOMAIN seen |->
                        IF cb \in Range(stateCallbacks) THEN Last(sv.em) ELSE seen[cb]]
    /\ reconnectAttempts' = sv.ra
    /\ reconnectTimeout' = sv.rt
    /\ orphanTimers' = sv.orph
    /\ dropLog' = sv.log

\* `outlived` records that disconnect() has returned while the call was suspended
\* and that the application has called neither requestDevice() nor connect() since
ConnectOp(pc, by) ==
    [op |-> "connect", pc |-> pc, by |-> by, doomed |-> FALSE, outlived |-> FALSE]

RequestOp ==
    [op |-> "requestDevice", pc |-> "picker", by |-> "user", doomed |-> FALSE,
     outlived |-> FALSE]

DisconnectOp ==
    [op |-> "disconnect", pc |-> "stopNotifications", by |-> "user", doomed |-> FALSE,
     outlived |-> FALSE]

InFlight(kind) == Cardinality({o \in ops : o.op = kind})

\* room for one more suspended call
OpRoom(new) == Cardinality(ops) < MaxInFlight /\ new \notin ops

\* addEventListener with a fresh bound function: one more listener on the object
\* (the model counts them up to MaxListeners)
AddListener(n) == Min(n + 1, MaxListeners)

\* room for the timers one dispatch of 'gattserverdisconnected' schedules
TimerRoom == PendingTimers + disconnectListeners <= MaxTimers

\* GATT connection lost: the promises of the calls in flight on it reject
Doom(os, alsoGatt) ==
    {IF o.op = "connect" /\ (alsoGatt \/ o.pc # "gatt")
        THEN [o EXCEPT !.doomed = TRUE] ELSE o : o \in os}

\* disconnect() returns: nothing in it touches a connect() that is suspended
Outlive(os) ==
    {IF o.op = "connect" THEN [o EXCEPT !.outlived = TRUE] ELSE o : o \in os}

\* the application calls requestDevice() or connect()
Recall(os) == {[o EXCEPT !.outlived = FALSE] : o \in os}

\* the calls in flight stay distinguishable after the application's call
Recallable == Cardinality(Recall(ops)) = Cardinality(ops)

dataVars == <<dataCallbacks, outcome, previousFailed, unsubscribed>>

gattVars == <<device, gattConnected, disconnectListeners, characteristic, notifying,
              charListeners>>

----------------------------------------------------------------------------
(* BluetoothService: requestDevice() *)

\* entry of requestDevice() up to `await navigator.bluetooth.requestDevice(...)`
RequestDevice ==
    /\ OpRoom(RequestOp) /\ Recallable
    /\ ops' = Recall(ops) \cup {RequestOp}
    /\ Commit(Upd(Sv, [isConnecting |-> TRUE, error |-> Undefined]))
    /\ event' = Step
    /\ UNCHANGED <<gattVars, stateCallbacks, dataVars>>

\* entry of connect() with a device selected, up to `await this.device.gatt.connect()`
connectEntry(sv) == Upd(sv, [isConnecting |-> TRUE])

\* the picker resolves: the device is stored, a disconnect listener is added and
\* connect() is entered
PickerResolved ==
    /\ RequestOp \in ops
    /\ ConnectOp("gatt", "requestDevice") \notin ops
    /\ device' = TRUE
    /\ disconnectListeners' = AddListener(disconnectListeners)
    /\ ops' = (ops \ {RequestOp}) \cup {ConnectOp("gatt", "requestDevice")}
    /\ Commit(connectEntry(Sv))
    /\ event' = Step
    /\ UNCHANGED <<gattConnected, characteristic, notifying, charListeners,
                   stateCallbacks, dataVars>>

\* catch block of requestDevice()
requestDeviceCatch(sv) ==
    Upd(sv, [isConnecting |-> FALSE, error |-> "Failed to request device"])

\* the picker rejects (cancelled, permission denied)
PickerRejected ==
    /\ RequestOp \in ops
    /\ ops' = ops \ {RequestOp}
    /\ Commit(requestDeviceCatch(Sv))
    /\ event' = Step
    /\ UNCHANGED <<gattVars, stateCallbacks, dataVars>>

----------------------------------------------------------------------------
(* BluetoothService: connect() *)

\* connect() called by the application
Connect ==
    /\ device
    /\ OpRoom(ConnectOp("gatt", "user")) /\ Recallable
    /\ ops' = Recall(ops) \cup {ConnectOp("gatt", "user")}
    /\ Commit(connectEntry(Sv))
    /\ event' = Step
    /\ UNCHANGED <<gattVars, stateCallbacks, dataVars>>

\* connect() without a device: throws before the try block
ConnectNoDevice ==
    /\ ~device /\ Recallable
    /\ ops' = Recall(ops)
    /\ Commit(Sv)
    /\ event' = "connect.nodevice"
    /\ UNCHANGED <<gattVars, stateCallbacks, dataVars>>

NextPc(pc) ==
    CASE pc = "gatt" -> "getPrimaryService"
      [] pc = "getPrimaryService" -> "getCharacteristic"
      [] pc = "getCharacteristic" -> "startNotifications"

\* one of the first three awaits of connect() resolves
ConnectAdvance ==
    \E o \in ops :
        /\ o.op = "connect" /\ ~o.doomed /\ o.pc # "startNotifications"
        /\ o.pc # "gatt" => gattConnected
        /\ [o EXCEPT !.pc = NextPc(o.pc)] \notin ops
        /\ ops' = (ops \ {o}) \cup {[o EXCEPT !.pc = NextPc(o.pc)]}
        /\ gattConnected' = (gattConnected \/ o.pc = "gatt")
        /\ characteristic' = (characteristic \/ o.pc = "getCharacteristic")
        /\ Commit(Sv)
        /\ event' = Step
        /\ UNCHANGED <<device, disconnectListeners, notifying, charListeners,
                       stateCallbacks, dataVars>>

\* connect() after `await this.characteristic.startNotifications()`
\* variant: a successful connect that keeps the attempt counter
connectSuccessKeepsAttempts(sv) ==
    Upd(sv, [isConnected |-> TRUE, isConnecting |-> FALSE,
             deviceName |-> DEVICE_NAME, error |-> Undefined])

connectSuccess(sv) ==
    [Upd(sv, [isConnected |-> TRUE, isConnecting |-> FALSE,
              deviceName |-> DEVICE_NAME, error |-> Undefined])
     EXCEPT !.ra = 0]

ConnectSucceeded ==
    \E o \in ops :
        /\ o.op = "connect" /\ ~o.doomed /\ o.pc = "startNotifications"
        /\ gattConnected
        /\ ops' = ops \ {o}
        /\ notifying' = TRUE
        /\ charListeners' = AddListener(charListeners)
        /\ Commit([connectSuccess(Sv) EXCEPT !.log = <<>>])
        /\ event' = IF o.by = "timer" THEN "reconnect.ok" ELSE "connect.ok"
        /\ UNCHANGED <<device, gattConnected, disconnectListeners, characteristic,
                       stateCallbacks, dataVars>>

\* catch block of connect()
connectCatch(sv) ==
    Upd(sv, [isConnected |-> FALSE, isConnecting |-> FALSE,
             error |-> "Connection failed"])

\* an await of connect() rejects; the error is rethrown to the caller:
\* requestDevice() catches it again, the reconnect timer callback logs it
ConnectFailed ==
    \E o \in ops :
        /\ o.op = "connect"
        /\ ops' = ops \ {o}
        /\ Commit(IF o.by = "requestDevice"
                  THEN requestDeviceCatch(connectCatch(Sv))
                  ELSE connectCatch(Sv))
        /\ event' = IF o.by = "timer" THEN "reconnect.failed" ELSE "connect.failed"
        /\ UNCHANGED <<gattVars, stateCallbacks, dataVars>>

----------------------------------------------------------------------------
(* BluetoothService: disconnect() *)

\* if (this.reconnectTimeout) { clearTimeout(...); this.reconnectTimeout = null }
clearReconnectTimeout(sv) == [sv EXCEPT !.rt = "null"]

\* last update of disconnect()
\* variant: a disconnect that leaves the error message in place
disconnectResetKeepsError(sv) ==
    Upd(sv, [isConnected |-> FALSE, isConnecting |-> FALSE,
             deviceName |-> Undefined])

disconnectReset(sv) ==
    Upd(sv, [isConnected |-> FALSE, isConnecting |-> FALSE,
             deviceName |-> Undefined, error |-> Undefined])

\* disconnect() from `this.characteristic = null` on.  gatt.disconnect() fires
\* 'gattserverdisconnected' at the device before it returns, so the listeners
\* run inside disconnect(), before its last updateState.
disconnectTail(sv, label) ==
    /\ characteristic' = FALSE
    /\ gattConnected' = FALSE
    /\ notifying' = FALSE
    /\ charListeners' = IF gattConnected THEN 0 ELSE charListeners
    /\ Commit(disconnectReset(IF gattConnected
                              THEN dispatchDisconnected(sv, disconnectListeners)
                              ELSE sv))
    /\ event' = label
    /\ UNCHANGED <<device, disconnectListeners, stateCallbacks, dataVars>>

\* disconnect() called by the application
Disconnect ==
    IF characteristic
    THEN /\ OpRoom(DisconnectOp)
         /\ ops' = ops \cup {DisconnectOp}
         /\ Commit(clearReconnectTimeout(Sv))
         /\ event' = Step
         /\ UNCHANGED <<gattVars, stateCallbacks, dataVars>>
    ELSE /\ gattConnected => TimerRoom
         /\ ops' = Outlive(IF gattConnected THEN Doom(ops, TRUE) ELSE ops)
         /\ disconnectTail(clearReconnectTimeout(Sv),
                           IF event \in {"disconnect.return", "disconnect.again"}
                           THEN "disconnect.again" ELSE "disconnect.return")

\* `await this.characteristic.stopNotifications()` settles, either way
DisconnectResumed ==
    /\ DisconnectOp \in ops
    /\ gattConnected => TimerRoom
    /\ ops' = Outlive(IF gattConnected THEN Doom(ops \ {DisconnectOp}, TRUE)
                      ELSE ops \ {DisconnectOp})
    /\ disconnectTail(Sv, "disconnect.return")

----------------------------------------------------------------------------
(* Transport events and the reconnect timer *)

\* the link drops: 'gattserverdisconnected' is dispatched to every listener
Drop ==
    /\ gattConnected
    /\ TimerRoom
    /\ gattConnected' = FALSE
    /\ notifying' = FALSE
    /\ charListeners' = 0
    /\ ops' = Doom(ops, FALSE)
    /\ Commit(dispatchDisconnected(Sv, disconnectListeners))
    /\ event' = "drop"
    /\ UNCHANGED <<device, disconnectListeners, characteristic, stateCallbacks, dataVars>>

\* a pending reconnect timer fires: its callback enters connect()
timerFired(sv, tracked) ==
    IF tracked THEN [sv EXCEPT !.rt = "stale"] ELSE [sv EXCEPT !.orph = sv.orph - 1]

ReconnectTimer ==
    \E tracked \in BOOLEAN :
        /\ IF tracked THEN reconnectTimeout = "live" ELSE orphanTimers > 0
        /\ OpRoom(ConnectOp("gatt", "timer"))
        /\ ops' = ops \cup {ConnectOp("gatt", "timer")}
        /\ Commit(connectEntry(timerFired(Sv, tracked)))
        /\ event' = Step
        /\ UNCHANGED <<gattVars, stateCallbacks, dataVars>>

----------------------------------------------------------------------------
(* Subscriber registries *)

NoState == [isConnected |-> FALSE, isConnecting |-> FALSE,
            deviceName |-> "never called", error |-> "never called"]

\* onStateChange(callback): push, then call it with the current state
\* variant: a registration that does not call the subscriber back
OnStateChangeNoReplay ==
    \E cb \in StateCbs :
        /\ Len(stateCallbacks) < MaxSubs
        /\ stateCallbacks' = Append(stateCallbacks, cb)
        /\ emitted' = <<>>
        /\ delivered' = <<>>
        /\ event' = Step
        /\ UNCHANGED <<gattVars, dataVars, ops, state, seen, reconnectAttempts,
                       reconnectTimeout, orphanTimers, dropLog>>

OnStateChange ==
    \E cb \in StateCbs :
        /\ Len(stateCallbacks) < MaxSubs
        /\ stateCallbacks' = Append(stateCallbacks, cb)
        /\ seen' = [seen EXCEPT ![cb] = state]
        /\ emitted' = <<state>>
        /\ delivered' = <<>>
        /\ event' = Step
        /\ UNCHANGED <<gattVars, dataVars, ops, state, reconnectAttempts,
                       reconnectTimeout, orphanTimers, dropLog>>

\* the handle returned by onStateChange(callback)
UnsubscribeState ==
    \E cb \in Range(stateCallbacks) :
        /\ stateCallbacks' = Filter(stateCallbacks, cb)
        /\ seen' = [seen EXCEPT ![cb] = NoState]
        /\ emitted' = <<>>
        /\ delivered' = <<>>
        /\ event' = Step
        /\ UNCHANGED <<gattVars, dataVars, ops, state, reconnectAttempts,
                       reconnectTimeout, orphanTimers, dropLog>>

\* onDataReceived(callback): push
OnDataReceived ==
    \E cb \in DataCbs :
        /\ Len(dataCallbacks) < MaxSubs
        /\ dataCallbacks' = Append(dataCallbacks, cb)
        /\ unsubscribed' = unsubscribed \ {cb}
        /\ Commit(Sv)
        /\ event' = Step
        /\ UNCHANGED <<gattVars, ops, stateCallbacks, outcome, previousFailed>>

\* the handle returned by onDataReceived(callback)
UnsubscribeData ==
    \E cb \in Range(dataCallbacks) \cup unsubscribed :
        /\ dataCallbacks' = Filter(dataCallbacks, cb)
        /\ unsubscribed' = unsubscribed \cup {cb}
        /\ Commit(Sv)
        /\ event' = Step
        /\ UNCHANGED <<gattVars, ops, stateCallbacks, outcome, previousFailed>>

----------------------------------------------------------------------------
(* Packet dispatch: handleDataReceived *)

BinaryLength == 94

\* What a notification can carry: the value's byte length and what the bytes are.
Notifications ==
    {[byteLength |-> BinaryLength, body |-> "binary"],
     [byteLength |-> BinaryLength - 1, body |-> "binary"],    \* truncated binary
     [byteLength |-> BinaryLength, body |-> "json.object"],   \* JSON text of 94 bytes
     [byteLength |-> 40, body |-> "json.object"],
     [byteLength |-> 4, body |-> "json.null"],                \* the text `null`
     [byteLength |-> 40, body |-> "json.invalid"],            \* not JSON
     [byteLength |-> 0, body |-> "no value"]}                 \* target.value is null

DecodeErrors == {"TypeError", "SyntaxError"}

\* JSON.parse(decoder.decode(value)), then the reads of rawData's properties
parseJsonPacket(n) ==
    CASE n.body = "json.object" -> "packet"
      [] n.body = "json.null" -> "TypeError"
      [] OTHER -> "SyntaxError"

\* DataView reads at fixed offsets of a 94 byte buffer: they cannot fail
parseBinaryPacket(n) == "packet"

\* handleDataReceived: what one run of the handler decodes
decode(n) ==
    IF n.body = "no value" THEN "return"
    ELSE IF n.byteLength = BinaryLength THEN parseBinaryPacket(n)
         ELSE parseJsonPacket(n)

\* this.dataCallbacks.forEach(callback => callback(packet))
\* variant: the registry walked from its last registration to its first
forEachCallbackReversed(cbs) == [i \in 1..Len(cbs) |-> cbs[Len(cbs) + 1 - i]]

forEachCallback(cbs) == cbs

\* one run of handleDataReceived: the callback invocations it makes
\* variant: a handler that calls the subscribers whatever the decoder did
handleDataReceivedUnchecked(n, cbs) == forEachCallback(cbs)

handleDataReceived(n, cbs) ==
    IF decode(n) = "packet" THEN forEachCallback(cbs) ELSE <<>>

\* every 'characteristicvaluechanged' listener handles the event
RECURSIVE dispatchValueChanged(_, _, _)
dispatchValueChanged(n, cbs, listeners) ==
    IF listeners = 0 THEN <<>>
    ELSE handleDataReceived(n, cbs) \o dispatchValueChanged(n, cbs, listeners - 1)

\* the transport produces a notification
Notify ==
    \E n \in Notifications :
        /\ notifying
        /\ outcome' = decode(n)
        /\ previousFailed' = (outcome \in DecodeErrors)
        /\ delivered' = dispatchValueChanged(n, dataCallbacks, charListeners)
        /\ emitted' = <<>>
        /\ event' = "notify"
        /\ UNCHANGED <<gattVars, ops, stateCallbacks, dataCallbacks, unsubscribed,
                       state, seen, reconnectAttempts, reconnectTimeout,
                       orphanTimers, dropLog>>

\* forEach when the callback `thrower` throws: the exception leaves forEach, so
\* the calls end with the first call of the thrower
untilThrow(calls, thrower) ==
    IF \E i \in 1..Len(calls) : calls[i] = thrower
    THEN SubSeq(calls, 1, CHOOSE i \in 1..Len(calls) :
                             /\ calls[i] = thrower
                             /\ \A j \in 1..(i - 1) : calls[j] # thrower)
    ELSE calls

\* one run of handleDataReceived in which a data callback throws: the catch
\* block of the handler logs the exception
handleDataReceivedThrow(n, cbs, thrower) ==
    IF decode(n) = "packet" THEN untilThrow(forEachCallback(cbs), thrower) ELSE <<>>

RECURSIVE dispatchValueChangedThrow(_, _, _, _)
dispatchValueChangedThrow(n, cbs, thrower, listeners) ==
    IF listeners = 0 THEN <<>>
    ELSE handleDataReceivedThrow(n, cbs, thrower)
         \o dispatchValueChangedThrow(n, cbs, thrower, listeners - 1)

\* the transport produces a well-formed notification and the registered
\* callback `thrower` throws when it is called with the packet
NotifyThrow ==
    \E n \in Notifications, thrower \in Range(dataCallbacks) :
        /\ notifying
        /\ charListeners > 0
        /\ decode(n) = "packet"
        /\ outcome' = decode(n)
        /\ previousFailed' = (outcome \in DecodeErrors)
        /\ delivered' = dispatchValueChangedThrow(n, dataCallbacks, thrower, charListeners)
        /\ emitted' = <<>>
        /\ event' = "notify.threw"
        /\ UNCHANGED <<gattVars, ops, stateCallbacks, dataCallbacks, unsubscribed,
                       state, seen, reconnectAttempts, reconnectTimeout,
                       orphanTimers, dropLog>>

----------------------------------------------------------------------------
(* SensorDataMapper: quaternions *)

\* A reading is a record of four components.  The readings fed to the mapper
\* are the eight unit quaternions +-1, +-i, +-j, +-k, whose products are
\* computed exactly.  A value the code computes by interpolation between
\* different readings is kept as the term that produced it.

Quat(w, x, y, z) == [qw |-> w, qx |-> x, qy |-> y, qz |-> z]

QIdentity == Quat(1, 0, 0, 0)

QI == Quat(0, 1, 0, 0)

QJ == Quat(0, 0, 1, 0)

QK == Quat(0, 0, 0, 1)

IsExact(q) == DOMAIN q = {"qw", "qx", "qy", "qz"}

negate(q) == Quat(-q.qw, -q.qx, -q.qy, -q.qz)

\* offsetThree.invert(): the conjugate
invert(q) ==
    IF IsExact(q) THEN Quat(q.qw, -q.qx, -q.qy, -q.qz) ELSE [invert |-> q]

\* qThree.multiply(offsetThree): this := this * q, the Hamilton product with
\* the receiver on the left; a unit quaternion times its conjugate is the
\* identity, also for a reading kept as a term
multiply(a, b) ==
    IF IsExact(a) /\ IsExact(b)
    THEN Quat(a.qw * b.qw - a.qx * b.qx - a.qy * b.qy - a.qz * b.qz,
              a.qx * b.qw + a.qw * b.qx + a.qy * b.qz - a.qz * b.qy,
              a.qy * b.qw + a.qw * b.qy + a.qz * b.qx - a.qx * b.qz,
              a.qz * b.qw + a.qw * b.qz + a.qx * b.qy - a.qy * b.qx)
    ELSE IF b = QIdentity THEN a
    ELSE IF a = QIdentity THEN b
    ELSE IF b = invert(a) \/ a = invert(b) THEN QIdentity
    ELSE [multiply |-> <<a, b>>]

Max(a, b) == IF a >= b THEN a ELSE b

RECURSIVE Depth(_)
\* operations nested in the term of a reading
Depth(q) ==
    IF IsExact(q) THEN 0
    ELSE IF "invert" \in DOMAIN q THEN 1 + Depth(q.invert)
    ELSE IF "multiply" \in DOMAIN q
         THEN 1 + Max(Depth(q.multiply[1]), Depth(q.multiply[2]))
    ELSE LET ds == {Depth(q.slerp[i]) : i \in 1..Len(q.slerp)}
         IN  1 + (CHOOSE d \in ds : \A e \in ds : d >= e)

\* every reading of the sensors object is within the depth explored
Shallow(sensors) == \A k \in DOMAIN sensors : Depth(sensors[k]) <= MaxDepth

----------------------------------------------------------------------------
(* SensorDataMapper: calibration, smoothing and processing *)

bufferSize == 5

SensorIds == {"pelvis", "left_thigh", "right_thigh", "left_shin", "right_shin"}

EmptyMap == [k \in {} |-> QIdentity]

\* no notification has been decoded yet
NoPacket == EmptyMap

Sensors(pelvis, thigh, shin) ==
    [k \in SensorIds |->
        IF k = "pelvis" THEN pelvis
        ELSE IF k \in {"left_thigh", "right_thigh"} THEN thigh
        ELSE shin]

\* the sensors objects of the packets the device sends
Packets ==
    { Sensors(QI, QJ, negate(QIdentity)),
      Sensors(QJ, QK, QI) }

applyCalibration(offsets, q, sensorId) ==
    IF sensorId \notin DOMAIN offsets
    THEN q
    ELSE multiply(q, invert(offsets[sensorId]))

\* variant: a full window that drops the reading just pushed
pushSampleDropsNewest(buffers, q, sensorId) ==
    LET buffer == IF sensorId \in DOMAIN buffers THEN buffers[sensorId] ELSE <<>>
        pushed == Append(buffer, q)
    IN  IF Len(pushed) > bufferSize THEN SubSeq(pushed, 1, bufferSize) ELSE pushed

\* buffer.push(q), then buffer.shift() when the window is over its size
pushSample(buffers, q, sensorId) ==
    LET buffer == IF sensorId \in DOMAIN buffers THEN buffers[sensorId] ELSE <<>>
        pushed == Append(buffer, q)
    IN  IF Len(pushed) > bufferSize THEN Tail(pushed) ELSE pushed

\* the value the interpolation loop leaves in result: the first sample when
\* every sample is that reading or its negative (each slerp step then
\* interpolates between equal quaternions), the interpolation term otherwise
interpolate(buffer) ==
    IF /\ \A i \in 1..Len(buffer) : IsExact(buffer[i])
       /\ \A i \in 1..Len(buffer) : buffer[i] \in {buffer[1], negate(buffer[1])}
    THEN buffer[1]
    ELSE [slerp |-> buffer]

\* the value returned for a window that already holds the pushed reading
smoothQuaternion(buffer) ==
    IF Len(buffer) = 1 THEN buffer[1] ELSE interpolate(buffer)

\* the reading processSensorPacket stores for one sensor
processSensor(offsets, buffers, sensors, enableSmoothing, key) ==
    LET calibrated == applyCalibration(offsets, sensors[key], key)
    IN  IF enableSmoothing
        THEN smoothQuaternion(pushSample(buffers, calibrated, key))
        ELSE calibrated

\* the sensors object after the loop; processed = { ...packet } copies the
\* reference, so processed.sensors is packet.sensors
processSensorPacket(offsets, buffers, sensors, enableSmoothing) ==
    [key \in DOMAIN sensors |->
        processSensor(offsets, buffers, sensors, enableSmoothing, key)]

\* the smoothing windows after the loop
processBuffers(offsets, buffers, sensors, enableSmoothing) ==
    IF enableSmoothing
    THEN [key \in DOMAIN buffers \cup DOMAIN sensors |->
            IF key \in DOMAIN sensors
            THEN pushSample(buffers, applyCalibration(offsets, sensors[key], key), key)
            ELSE buffers[key]]
    ELSE buffers

\* handleDataReceived decodes a notification into a new packet object
Receive ==
    \E p \in Packets :
        /\ packet' = p
        /\ original' = p
        /\ results' = <<>>
        /\ mevent' = "receive"
        /\ UNCHANGED <<calibrationOffsets, smoothingBuffer, samples>>

\* one consumer of the packet calls processSensorPacket(packet, enableSmoothing)
Process ==
    \E enableSmoothing \in BOOLEAN :
        /\ packet # NoPacket
        /\ Shallow(packet)
        /\ Len(results) < MaxProcess
        /\ enableSmoothing => samples < MaxSamples
        /\ LET processed == processSensorPacket(calibrationOffsets, smoothingBuffer,
                                                packet, enableSmoothing)
           IN  /\ packet' = processed
               /\ results' = Append(results, [enableSmoothing |-> enableSmoothing,
                                              sensors |-> processed])
        /\ smoothingBuffer' = processBuffers(calibrationOffsets, smoothingBuffer,
                                             packet, enableSmoothing)
        /\ samples' = IF enableSmoothing THEN samples + 1 ELSE samples
        /\ mevent' = "process"
        /\ UNCHANGED <<calibrationOffsets, original>>

\* variant: a calibration that keeps the offsets already stored
CalibrateKeepsStored ==
    /\ packet # NoPacket
    /\ Shallow(packet)
    /\ calibrationOffsets' =
         [k \in DOMAIN calibrationOffsets \cup DOMAIN packet |->
            IF k \in DOMAIN calibrationOffsets THEN calibrationOffsets[k] ELSE packet[k]]
    /\ mevent' = "calibrate"
    /\ UNCHANGED <<smoothingBuffer, packet, original, results, samples>>

\* calibrate(packet)
Calibrate ==
    /\ packet # NoPacket
    /\ Shallow(packet)
    /\ calibrationOffsets' =
         [k \in DOMAIN calibrationOffsets \cup DOMAIN packet |->
            IF k \in DOMAIN packet THEN packet[k] ELSE calibrationOffsets[k]]
    /\ mevent' = "calibrate"
    /\ UNCHANGED <<smoothingBuffer, packet, original, results, samples>>

\* clearCalibration()
ClearCalibration ==
    /\ calibrationOffsets' = EmptyMap
    /\ smoothingBuffer' = EmptyMap
    /\ mevent' = "clear"
    /\ UNCHANGED <<packet, original, results, samples>>

MaxWindowed == 7      \* packets smoothed in a stream

\* the packets of a stream: at rest, and a pose
StreamPackets ==
    { Sensors(QIdentity, QIdentity, QIdentity),
      Sensors(QI, QJ, QK) }

\* a packet of the stream is decoded and its consumer calls
\* processSensorPacket(packet, enableSmoothing) on it
Smooth ==
    \E p \in StreamPackets, enableSmoothing \in BOOLEAN :
        /\ enableSmoothing => samples < MaxWindowed
        /\ original' = p
        /\ packet' = processSensorPacket(calibrationOffsets, smoothingBuffer,
                                         p, enableSmoothing)
        /\ results' = <<[enableSmoothing |-> enableSmoothing, sensors |-> packet']>>
        /\ smoothingBuffer' = processBuffers(calibrationOffsets, smoothingBuffer,
                                             p, enableSmoothing)
        /\ samples' = IF enableSmoothing THEN samples + 1 ELSE samples
        /\ mevent' = "process"
        /\ UNCHANGED calibrationOffsets

----------------------------------------------------------------------------
(* Specifications *)

\* the ExercisePlayer as mounted on an exercise: the useState initial values,
\* and the data callback the first run of the effect subscribed
Mounted(targetAngleOfExercise) ==
    /\ definition = targetAngleOfExercise
    /\ exercisePhase = "demo"
    /\ isSensorConnected = FALSE
    /\ repState = "extended"
    /\ currentSet = 1
    /\ currentRep = 0
    /\ lastKneeAngle = 0
    /\ sensorData = "null"
    /\ subscribed = [exercisePhase |-> "demo", isSensorConnected |-> FALSE,
                     repState |-> "extended", currentSet |-> 1]
    /\ continuations = <<>>
    /\ exceeded = FALSE
    /\ counted = FALSE

\* the player of an exercise whose definition has target angle 0 (Quad Sets)
PlayerInit == Mounted(0)

\* no JSON field decoded yet
CodecInit ==
    /\ field = "none"
    /\ decoded = [called |-> FALSE]

\* the analyzer as constructed
GaitInit ==
    /\ sensorHistory = <<>>
    /\ weightHistory = [left |-> <<>>, right |-> <<>>]
    /\ lastPelvisPitch = 0
    /\ stepCount = 0
    /\ given = "none"
    /\ returned = "none"
    /\ gevent = "init"

\* the mapper as constructed
MapperInit ==
    /\ calibrationOffsets = EmptyMap
    /\ smoothingBuffer = EmptyMap
    /\ packet = NoPacket
    /\ original = NoPacket
    /\ results = <<>>
    /\ samples = 0
    /\ mevent = "init"

\* the service as constructed
ServiceInit ==
    /\ device = FALSE
    /\ gattConnected = FALSE
    /\ disconnectListeners = 0
    /\ characteristic = FALSE
    /\ notifying = FALSE
    /\ charListeners = 0
    /\ reconnectAttempts = 0
    /\ reconnectTimeout = "null"
    /\ orphanTimers = 0
    /\ state = InitialState
    /\ ops = {}
    /\ outcome = "none"
    /\ previousFailed = FALSE
    /\ unsubscribed = {}
    /\ emitted = <<>>
    /\ delivered = <<>>
    /\ dropLog = <<>>
    /\ event = "init"

Init ==
    /\ ServiceInit
    /\ stateCallbacks = <<>>
    /\ dataCallbacks = <<>>
    /\ seen = [cb \in StateCbs |-> NoState]
    /\ MapperInit
    /\ GaitInit
    /\ PlayerInit
    /\ CodecInit

\* connection lifecycle with state subscribers
Next ==
    \/ RequestDevice /\ UNCHANGED <<mapperVars, gaitVars, playerVars, codecVars>>
    \/ PickerResolved /\ UNCHANGED <<mapperVars, gaitVars, playerVars, codecVars>>
    \/ PickerRejected /\ UNCHANGED <<mapperVars, gaitVars, playerVars, codecVars>>
    \/ Connect /\ UNCHANGED <<mapperVars, gaitVars, playerVars, codecVars>>
    \/ ConnectNoDevice /\ UNCHANGED <<mapperVars, gaitVars, playerVars, codecVars>>
    \/ ConnectAdvance /\ UNCHANGED <<mapperVars, gaitVars, playerVars, codecVars>>
    \/ ConnectSucceeded /\ UNCHANGED <<mapperVars, gaitVars, playerVars, codecVars>>
    \/ ConnectFailed /\ UNCHANGED <<mapperVars, gaitVars, playerVars, codecVars>>
    \/ Disconnect /\ UNCHANGED <<mapperVars, gaitVars, playerVars, codecVars>>
    \/ DisconnectResumed /\ UNCHANGED <<mapperVars, gaitVars, playerVars, codecVars>>
    \/ Drop /\ UNCHANGED <<mapperVars, gaitVars, playerVars, codecVars>>
    \/ ReconnectTimer /\ UNCHANGED <<mapperVars, gaitVars, playerVars, codecVars>>
    \/ OnStateChange /\ UNCHANGED <<mapperVars, gaitVars, playerVars, codecVars>>
    \/ UnsubscribeState /\ UNCHANGED <<mapperVars, gaitVars, playerVars, codecVars>>

Spec == Init /\ [][Next]_vars

\* the reconnection policy alone: the application never calls disconnect()
ReconnectNext ==
    \/ RequestDevice /\ UNCHANGED <<mapperVars, gaitVars, playerVars, codecVars>>
    \/ PickerResolved /\ UNCHANGED <<mapperVars, gaitVars, playerVars, codecVars>>
    \/ PickerRejected /\ UNCHANGED <<mapperVars, gaitVars, playerVars, codecVars>>
    \/ Connect /\ UNCHANGED <<mapperVars, gaitVars, playerVars, codecVars>>
    \/ ConnectAdvance /\ UNCHANGED <<mapperVars, gaitVars, playerVars, codecVars>>
    \/ ConnectSucceeded /\ UNCHANGED <<mapperVars, gaitVars, playerVars, codecVars>>
    \/ ConnectFailed /\ UNCHANGED <<mapperVars, gaitVars, playerVars, codecVars>>
    \/ Drop /\ UNCHANGED <<mapperVars, gaitVars, playerVars, codecVars>>
    \/ ReconnectTimer /\ UNCHANGED <<mapperVars, gaitVars, playerVars, codecVars>>

ReconnectSpec == Init /\ [][ReconnectNext]_vars

\* the service with one state subscriber registered, for the data path
DataInit ==
    /\ ServiceInit
    /\ stateCallbacks = <<"s1">>
    /\ dataCallbacks = <<>>
    /\ seen = [cb \in StateCbs |-> InitialState]
    /\ MapperInit
    /\ GaitInit
    /\ PlayerInit
    /\ CodecInit

\* connecting and disconnecting on the application's request, with data
\* subscribers and notifications
DataNext ==
    \/ RequestDevice /\ UNCHANGED <<mapperVars, gaitVars, playerVars, codecVars>>
    \/ PickerResolved /\ UNCHANGED <<mapperVars, gaitVars, playerVars, codecVars>>
    \/ ConnectAdvance /\ UNCHANGED <<mapperVars, gaitVars, playerVars, codecVars>>
    \/ ConnectSucceeded /\ UNCHANGED <<mapperVars, gaitVars, playerVars, codecVars>>
    \/ ConnectFailed /\ UNCHANGED <<mapperVars, gaitVars, playerVars, codecVars>>
    \/ Disconnect /\ UNCHANGED <<mapperVars, gaitVars, playerVars, codecVars>>
    \/ DisconnectResumed /\ UNCHANGED <<mapperVars, gaitVars, playerVars, codecVars>>
    \/ OnDataReceived /\ UNCHANGED <<mapperVars, gaitVars, playerVars, codecVars>>
    \/ UnsubscribeData /\ UNCHANGED <<mapperVars, gaitVars, playerVars, codecVars>>
    \/ Notify /\ UNCHANGED <<mapperVars, gaitVars, playerVars, codecVars>>

DataSpec == DataInit /\ [][DataNext]_vars

\* the data path with data subscribers that may throw
ThrowNext ==
    \/ DataNext
    \/ NotifyThrow /\ UNCHANGED <<mapperVars, gaitVars, playerVars, codecVars>>

ThrowSpec == DataInit /\ [][ThrowNext]_vars

\* a session of the application: it connects, calibrates on the packets it
\* receives while notifications are on, and the link ends by disconnect() or
\* by a drop
SessionNext ==
    \/ RequestDevice /\ UNCHANGED <<mapperVars, gaitVars, playerVars, codecVars>>
    \/ PickerResolved /\ UNCHANGED <<mapperVars, gaitVars, playerVars, codecVars>>
    \/ ConnectAdvance /\ UNCHANGED <<mapperVars, gaitVars, playerVars, codecVars>>
    \/ ConnectSucceeded /\ UNCHANGED <<mapperVars, gaitVars, playerVars, codecVars>>
    \/ Disconnect /\ UNCHANGED <<mapperVars, gaitVars, playerVars, codecVars>>
    \/ DisconnectResumed /\ UNCHANGED <<mapperVars, gaitVars, playerVars, codecVars>>
    \/ Drop /\ UNCHANGED <<mapperVars, gaitVars, playerVars, codecVars>>
    \/ notifying /\ Receive /\ UNCHANGED <<btVars, gaitVars, playerVars, codecVars>>
    \/ Calibrate /\ UNCHANGED <<btVars, gaitVars, playerVars, codecVars>>
    \/ ClearCalibration /\ UNCHANGED <<btVars, gaitVars, playerVars, codecVars>>

SessionSpec == Init /\ [][SessionNext]_vars

\* the eight unit quaternions +-1, +-i, +-j, +-k
UnitReadings ==
    {QIdentity, QI, QJ, QK, negate(QIdentity), negate(QI), negate(QJ), negate(QK)}

\* a mapper holding no calibration or one captured from a packet, and a
\* decoded packet
CalibrationInit ==
    /\ ServiceInit
    /\ stateCallbacks = <<>>
    /\ dataCallbacks = <<>>
    /\ seen = [cb \in StateCbs |-> NoState]
    /\ calibrationOffsets \in
         {EmptyMap} \cup {Sensors(o, o, o) : o \in UnitReadings}
    /\ smoothingBuffer = EmptyMap
    /\ packet \in {Sensors(q, q, q) : q \in UnitReadings}
    /\ original = packet
    /\ results = <<>>
    /\ samples = 0
    /\ mevent = "init"
    /\ GaitInit
    /\ PlayerInit
    /\ CodecInit

\* applyCalibration(packet.sensors[sensorId], sensorId)
ApplyCalibration ==
    \E sensorId \in SensorIds :
        /\ results' = <<[sensorId |-> sensorId,
                         reading |-> packet[sensorId],
                         value |-> applyCalibration(calibrationOffsets,
                                                    packet[sensorId], sensorId)]>>
        /\ mevent' = "applyCalibration"
        /\ UNCHANGED <<calibrationOffsets, smoothingBuffer, packet, original, samples>>

CalibrationNext == ApplyCalibration /\ UNCHANGED <<btVars, gaitVars, playerVars, codecVars>>

CalibrationSpec == CalibrationInit /\ [][CalibrationNext]_vars

----------------------------------------------------------------------------
(* SensorDataMapper: isValidPacket *)

\* Readings as the decoder hands them over, not necessarily of unit length:
\* components in hundredths, and NaN for a component that is not a number
\* (getFloat32 of a NaN bit pattern).

Hundredths == 100

Tolerance == 10

NaN == 1000000

HasNaN(q) == NaN \in {q.qw, q.qx, q.qy, q.qz}

SumOfSquares(q) == q.qw * q.qw + q.qx * q.qx + q.qy * q.qy + q.qz * q.qz

\* Math.sqrt(n): its integer part, and whether that is all of it
Sqrt(n) ==
    LET r == CHOOSE x \in 0..n : x * x <= n /\ (x + 1) * (x + 1) > n
    IN  [whole |-> r, exact |-> r * r = n]

\* Math.sqrt(q.qw * q.qw + q.qx * q.qx + q.qy * q.qy + q.qz * q.qz)
magnitude(q) ==
    IF HasNaN(q) THEN [whole |-> NaN, exact |-> TRUE] ELSE Sqrt(SumOfSquares(q))

Abs(x) == IF x < 0 THEN -x ELSE x

\* Math.abs(mag - 1.0) > 0.1: mag is below 0.9 or above 1.1; every comparison
\* with NaN is false
OutOfTolerance(mag) ==
    IF mag.whole = NaN THEN FALSE
    ELSE \/ mag.whole < Hundredths - Tolerance
         \/ mag.whole > Hundredths + Tolerance
         \/ (mag.whole = Hundredths + Tolerance /\ ~mag.exact)

\* the loop returns false at the first reading out of tolerance
isValidPacket(sensors) == \A k \in DOMAIN sensors : ~OutOfTolerance(magnitude(sensors[k]))

\* readings of magnitude 1.00, 1.00, 0.90, 1.10, 0.89, 1.11, 0.00, not a
\* number, just above 1.10 and just below 0.90
RawReadings ==
    { Quat(100, 0, 0, 0), Quat(60, 0, 80, 0), Quat(0, 90, 0, 0), Quat(66, 0, 0, 88),
      Quat(0, 0, 89, 0), Quat(0, 111, 0, 0), Quat(0, 0, 0, 0), Quat(100, NaN, 0, 0),
      Quat(110, 1, 0, 0), Quat(89, 0, 13, 0) }

\* packets in which one sensor carries any of the readings and the others a
\* reading of unit length
RawPackets ==
    { [k \in SensorIds |-> IF k = one THEN r ELSE g] :
        one \in SensorIds, r \in RawReadings,
        g \in {Quat(100, 0, 0, 0), Quat(60, 0, 80, 0)} }

ValidationInit ==
    /\ ServiceInit
    /\ stateCallbacks = <<>>
    /\ dataCallbacks = <<>>
    /\ seen = [cb \in StateCbs |-> NoState]
    /\ calibrationOffsets = EmptyMap
    /\ smoothingBuffer = EmptyMap
    /\ packet \in RawPackets
    /\ original = packet
    /\ results = <<>>
    /\ samples = 0
    /\ mevent = "init"
    /\ GaitInit
    /\ PlayerInit
    /\ CodecInit

\* a consumer calls isValidPacket(packet)
IsValidPacket ==
    /\ results' = <<[valid |-> isValidPacket(packet)]>>
    /\ mevent' = "isValidPacket"
    /\ UNCHANGED <<calibrationOffsets, smoothingBuffer, packet, original, samples>>

ValidationNext == IsValidPacket /\ UNCHANGED <<btVars, gaitVars, playerVars, codecVars>>

ValidationSpec == ValidationInit /\ [][ValidationNext]_vars

----------------------------------------------------------------------------
(* GaitAnalyzer: collectGaitData *)

MaxHistory == 3       \* packets accepted into one session

STEP_DETECTION_THRESHOLD == 150    \* 0.15 rad, in milliradians

\* Infinity; -Infinity is its negative
Infinity == 2000000

IsInfinite(a) == a = Infinity \/ a = -Infinity

\* Number.isFinite(a)
IsFinite(a) == a # NaN /\ ~IsInfinite(a)

\* arithmetic and comparison of numbers that may be NaN or infinite
Minus(a, b) ==
    IF a = NaN \/ b = NaN THEN NaN
    ELSE IF IsInfinite(a) THEN (IF a = b THEN NaN ELSE a)
    ELSE IF IsInfinite(b) THEN -b
    ELSE a - b

AbsN(a) == IF a = NaN THEN NaN ELSE Abs(a)

Greater(a, b) == a # NaN /\ b # NaN /\ a > b

\* new Euler().setFromQuaternion(q).x in milliradians, for the identity and
\* for rotations about the X axis: 2 * atan2(qx, qw)
eulerX(q) ==
    IF HasNaN(q) THEN NaN
    ELSE IF q = Quat(80, 60, 0, 0) THEN 1287
    ELSE IF q = Quat(60, 80, 0, 0) THEN 1855
    ELSE IF q = Quat(99, 14, 0, 0) THEN 281
    ELSE 0

UnitReading == Quat(100, 0, 0, 0)

\* a packet with the pelvis and the thighs at rest
LegsPacket(leftShin, rightShin, left, right) ==
    [sensors |-> [k \in SensorIds |->
                    IF k = "left_shin" THEN leftShin
                    ELSE IF k = "right_shin" THEN rightShin
                    ELSE UnitReading],
     left_wt |-> left,
     right_wt |-> right]

GaitPacket(pelvis, shin, left, right) ==
    [sensors |-> [k \in SensorIds |->
                    IF k = "pelvis" THEN pelvis
                    ELSE IF k = "left_shin" THEN shin
                    ELSE UnitReading],
     left_wt |-> left,
     right_wt |-> right]

\* packets handed to the analyzer: pelvis pitch 0, 0.281, 1.287 and 1.855 rad,
\* a pelvis reading of magnitude 0, a shin reading of magnitude 1.11, and a
\* pelvis reading with a NaN component; a left knee bent by 73.7 degrees and
\* a right knee bent by 106.3 degrees, the first with no load on either heel
GaitPackets ==
    { GaitPacket(UnitReading, UnitReading, 50, 50),
      GaitPacket(Quat(99, 14, 0, 0), UnitReading, 50, 50),
      GaitPacket(Quat(80, 60, 0, 0), UnitReading, 70, 30),
      GaitPacket(Quat(60, 80, 0, 0), UnitReading, 30, 70),
      GaitPacket(Quat(0, 0, 0, 0), UnitReading, 60, 40),
      GaitPacket(Quat(80, 60, 0, 0), Quat(0, 111, 0, 0), 60, 40),
      GaitPacket(Quat(100, NaN, 0, 0), UnitReading, 60, 40),
      LegsPacket(Quat(80, 60, 0, 0), UnitReading, 0, 0),
      LegsPacket(UnitReading, Quat(60, 80, 0, 0), 40, 60) }

\* variant: a step is looked for from the first packet of a session on
detectStepFromFirst(count, historyLength, currentPitch, lastPitch) ==
    IF /\ historyLength > 0
       /\ Greater(AbsN(Minus(currentPitch, lastPitch)), STEP_DETECTION_THRESHOLD)
       /\ Greater(currentPitch, lastPitch)
    THEN count + 1
    ELSE count

\* variant: a fall of the pitch counts as a step too
detectStepBothEdges(count, historyLength, currentPitch, lastPitch) ==
    IF /\ historyLength > 1
       /\ Greater(AbsN(Minus(currentPitch, lastPitch)), STEP_DETECTION_THRESHOLD)
    THEN count + 1
    ELSE count

\* the step counter after an accepted packet
detectStep(count, historyLength, currentPitch, lastPitch) ==
    IF /\ historyLength > 1
       /\ Greater(AbsN(Minus(currentPitch, lastPitch)), STEP_DETECTION_THRESHOLD)
       /\ Greater(currentPitch, lastPitch)
    THEN count + 1
    ELSE count

\* collectGaitData(p)
CollectGaitData ==
    \E p \in GaitPackets :
        /\ given' = p
        /\ gevent' = "collectGaitData"
        /\ IF ~isValidPacket(p.sensors)
           THEN /\ returned' = stepCount
                /\ UNCHANGED <<sensorHistory, weightHistory, lastPelvisPitch, stepCount>>
           ELSE /\ Len(sensorHistory) < MaxHistory
                /\ sensorHistory' = Append(sensorHistory, p)
                /\ weightHistory' = [left |-> Append(weightHistory.left, p.left_wt),
                                     right |-> Append(weightHistory.right, p.right_wt)]
                /\ stepCount' = detectStep(stepCount, Len(sensorHistory) + 1,
                                           eulerX(p.sensors["pelvis"]), lastPelvisPitch)
                /\ lastPelvisPitch' = eulerX(p.sensors["pelvis"])
                /\ returned' = stepCount'

\* reset(); gevent tells a reset of a session in which steps were counted from
\* any other
Reset ==
    /\ sensorHistory' = <<>>
    /\ weightHistory' = [left |-> <<>>, right |-> <<>>]
    /\ stepCount' = 0
    /\ lastPelvisPitch' = 0
    /\ gevent' = IF stepCount > 0 THEN "reset.steps" ELSE "reset"
    /\ UNCHANGED <<given, returned>>

\* a / b of a finite a: quotients are truncated to the unit the operands are in
Divide(a, b) ==
    IF a = NaN \/ b = NaN THEN NaN
    ELSE IF b = 0 THEN (IF a = 0 THEN NaN ELSE IF a > 0 THEN Infinity ELSE -Infinity)
    ELSE IF a >= 0 THEN a \div b ELSE -((-a) \div b)

RECURSIVE Sum(_)
\* data.reduce((a, b) => a + b, 0)
Sum(data) ==
    IF Len(data) = 0 THEN 0
    ELSE LET rest == Sum(Tail(data))
         IN  IF Head(data) = NaN \/ rest = NaN THEN NaN ELSE Head(data) + rest

\* Math.max(...data): -Infinity of no argument, NaN when an argument is NaN
MathMax(data) ==
    IF Len(data) = 0 THEN -Infinity
    ELSE IF \E i \in 1..Len(data) : data[i] = NaN THEN NaN
    ELSE CHOOSE x \in {data[i] : i \in 1..Len(data)} :
             \A i \in 1..Len(data) : x >= data[i]

\* Math.min(...data): Infinity of no argument
MathMin(data) ==
    IF Len(data) = 0 THEN Infinity
    ELSE IF \E i \in 1..Len(data) : data[i] = NaN THEN NaN
    ELSE CHOOSE x \in {data[i] : i \in 1..Len(data)} :
             \A i \in 1..Len(data) : x <= data[i]

\* (euler.x * 180) / Math.PI, from milliradians to hundredths of a degree
Degrees(mrad) == IF mrad = NaN THEN NaN ELSE Divide(mrad * 18000, 3142)

\* sensorDataMapper.calculateJointAngle(q1, q2), in hundredths of a degree.
\* The thighs of the packets fed are unit readings and the shins rotations
\* about X, so the relative rotation is the shin's and euler.y = euler.z = 0.
calculateJointAngle(q1, q2) ==
    LET relative == IF q1 = UnitReading THEN q2 ELSE multiply(invert(q1), q2)
        xAngle == AbsN(Degrees(eulerX(relative)))
    IN  xAngle

rightAngles(history) ==
    [i \in 1..Len(history) |->
        calculateJointAngle(history[i].sensors["right_thigh"],
                            history[i].sensors["right_shin"])]

leftAngles(history) ==
    [i \in 1..Len(history) |->
        calculateJointAngle(history[i].sensors["left_thigh"],
                            history[i].sensors["left_shin"])]

\* analyzeRangeOfMotion()
analyzeRangeOfMotion(history) ==
    [right |-> Minus(MathMax(rightAngles(history)), MathMin(rightAngles(history))),
     left |-> Minus(MathMax(leftAngles(history)), MathMin(leftAngles(history)))]

\* variant: an asymmetry score taken from the average angles
analyzeAsymmetryOfAverages(history) ==
    LET avgRight == Divide(Sum(rightAngles(history)), Len(history))
        avgLeft == Divide(Sum(leftAngles(history)), Len(history))
    IN  [score |-> AbsN(Minus(avgRight, avgLeft)),
         avgRight |-> avgRight, avgLeft |-> avgLeft]

\* analyzeAsymmetry()
analyzeAsymmetry(history) ==
    LET rightROM == Minus(MathMax(rightAngles(history)), MathMin(rightAngles(history)))
        leftROM == Minus(MathMax(leftAngles(history)), MathMin(leftAngles(history)))
    IN  [score |-> AbsN(Minus(rightROM, leftROM)),
         avgRight |-> Divide(Sum(rightAngles(history)), Len(history)),
         avgLeft |-> Divide(Sum(leftAngles(history)), Len(history))]

\* Math.sqrt(euler.y ** 2 + euler.z ** 2) of a thigh: 0 for the unit readings
\* and the rotations about X fed here, NaN for a reading with a NaN component
lateral(q) == IF HasNaN(q) THEN NaN ELSE 0

\* analyzeLateralStability(): the standard deviation of the lateral movements
analyzeLateralStability(history) ==
    LET lateralMovements ==
            [i \in 1..(2 * Len(history)) |->
                IF i % 2 = 1 THEN lateral(history[(i + 1) \div 2].sensors["right_thigh"])
                ELSE lateral(history[i \div 2].sensors["left_thigh"])]
        n == Len(lateralMovements)
        mean == Divide(Sum(lateralMovements), n)
        squares == [i \in 1..n |->
                       IF mean = NaN \/ lateralMovements[i] = NaN THEN NaN
                       ELSE (lateralMovements[i] - mean) * (lateralMovements[i] - mean)]
        variance == Divide(Sum(squares), n)
    IN  IF variance = NaN THEN NaN ELSE Sqrt(variance).whole

smoothWindow == 5

\* smoothWeight(data): [i] is the mean of data[i - 4 .. i]
smoothWeight(data) ==
    [i \in 1..Len(data) |->
        LET start == Max(1, i - smoothWindow + 1)
        IN  Divide(Sum(SubSeq(data, start, i)), i - start + 1)]

\* analyzeWeightDistribution(); the percentages in hundredths of a percent
analyzeWeightDistribution(weights) ==
    IF Len(weights.left) = 0 \/ Len(weights.right) = 0
    THEN [score |-> 0, avgRight |-> 0, avgLeft |-> 0]
    ELSE LET smoothedLeft == smoothWeight(weights.left)
             smoothedRight == smoothWeight(weights.right)
             avgLeft == Divide(Sum(smoothedLeft), Len(smoothedLeft))
             avgRight == Divide(Sum(smoothedRight), Len(smoothedRight))
             totalAvg == avgLeft + avgRight
             leftPercent == Divide(avgLeft * 100 * Hundredths, totalAvg)
             rightPercent == Divide(avgRight * 100 * Hundredths, totalAvg)
         IN  [score |-> AbsN(Minus(leftPercent, rightPercent)),
              avgRight |-> avgRight, avgLeft |-> avgLeft]

\* the metrics of analyze(), testDuration left out
metricsOf(rom, asymmetry, lateralStability, weightDistribution, steps) ==
    [rightKneeROM |-> rom.right,
     leftKneeROM |-> rom.left,
     asymmetryScore |-> asymmetry.score,
     lateralStabilityScore |-> lateralStability,
     weightDistributionScore |-> weightDistribution.score,
     stepCount |-> steps,
     averageRightKnee |-> asymmetry.avgRight,
     averageLeftKnee |-> asymmetry.avgLeft,
     averageRightWeight |-> weightDistribution.avgRight,
     averageLeftWeight |-> weightDistribution.avgLeft]

\* analyze() on the session collected: it reads the histories and the step
\* count and assigns no field of the analyzer; of the result the metrics are
\* kept here (the diagnosis of the metrics is the Analyze step)
AnalyzeSession ==
    /\ returned' = metricsOf(analyzeRangeOfMotion(sensorHistory),
                             analyzeAsymmetry(sensorHistory),
                             analyzeLateralStability(sensorHistory),
                             analyzeWeightDistribution(weightHistory),
                             stepCount)
    /\ gevent' = "analyze"
    /\ UNCHANGED <<sensorHistory, weightHistory, lastPelvisPitch, stepCount, given>>

GaitNext ==
    \/ CollectGaitData /\ UNCHANGED <<btVars, mapperVars, playerVars, codecVars>>
    \/ Reset /\ UNCHANGED <<btVars, mapperVars, playerVars, codecVars>>
    \/ AnalyzeSession /\ UNCHANGED <<btVars, mapperVars, playerVars, codecVars>>

GaitSpec == Init /\ [][GaitNext]_vars

----------------------------------------------------------------------------
(* GaitAnalyzer: generateDiagnosis and analyze *)

\* Knee ROM and asymmetry in degrees, lateral stability in thousandths of a
\* radian, weight distribution in percent.

NORMAL_ROM_MIN == 50

ROM_SEVERE_BELOW == 40

ROM_MODERATE_BELOW == 45

ASYMMETRY_THRESHOLD_MILD == 10

ASYMMETRY_THRESHOLD_MODERATE == 15

LATERAL_STABILITY_THRESHOLD == 250

WEIGHT_IMBALANCE_THRESHOLD_MILD == 15

WEIGHT_IMBALANCE_THRESHOLD_MODERATE == 25

\* a GaitDiagnosis; favoring is the side its description names as the heavier
Diagnosis(type, severity, affectedSide, favoring) ==
    [type |-> type, severity |-> severity, affectedSide |-> affectedSide,
     favoring |-> favoring]

\* variant: the severity bands with their bounds included
romSeverityInclusive(rom) ==
    IF rom <= ROM_SEVERE_BELOW THEN "severe"
    ELSE IF rom <= ROM_MODERATE_BELOW THEN "moderate"
    ELSE "mild"

romSeverity(rom) ==
    IF rom < ROM_SEVERE_BELOW THEN "severe"
    ELSE IF rom < ROM_MODERATE_BELOW THEN "moderate"
    ELSE "mild"

checkROM(rom, type, side) ==
    IF rom < NORMAL_ROM_MIN
    THEN <<Diagnosis(type, romSeverity(rom), side, "none")>>
    ELSE <<>>

checkAsymmetry(score) ==
    IF score > ASYMMETRY_THRESHOLD_MILD
    THEN <<Diagnosis("ASYMMETRIC_GAIT",
                     IF score > ASYMMETRY_THRESHOLD_MODERATE THEN "moderate" ELSE "mild",
                     "both", "none")>>
    ELSE <<>>

\* score > LATERAL_STABILITY_THRESHOLD * 1.5, on integers
checkLateralStability(score) ==
    IF score > LATERAL_STABILITY_THRESHOLD
    THEN <<Diagnosis("UNSTABLE_KNEE",
                     IF 2 * score > 3 * LATERAL_STABILITY_THRESHOLD
                     THEN "moderate" ELSE "mild",
                     "both", "none")>>
    ELSE <<>>

checkWeight(m) ==
    IF m.weightDistributionScore > WEIGHT_IMBALANCE_THRESHOLD_MILD
    THEN <<Diagnosis("WEIGHT_IMBALANCE",
                     IF m.weightDistributionScore > WEIGHT_IMBALANCE_THRESHOLD_MODERATE
                     THEN "moderate" ELSE "mild",
                     "both",
                     IF m.averageRightWeight > m.averageLeftWeight
                     THEN "right" ELSE "left")>>
    ELSE <<>>

\* generateDiagnosis(metrics): the NORMAL entry is pushed when the list is
\* empty after the first four checks, before the weight check
generateDiagnosis(m) ==
    LET found == checkROM(m.rightKneeROM, "LIMITED_ROM_RIGHT", "right")
                 \o checkROM(m.leftKneeROM, "LIMITED_ROM_LEFT", "left")
                 \o checkAsymmetry(m.asymmetryScore)
                 \o checkLateralStability(m.lateralStabilityScore)
        sofar == IF Len(found) = 0
                 THEN <<Diagnosis("NORMAL", "normal", Undefined, "none")>>
                 ELSE found
    IN  sofar \o checkWeight(m)

\* variant: a moderate diagnosis decides the status before a severe one
overallStatusModerateFirst(diagnoses) ==
    IF \E i \in 1..Len(diagnoses) : diagnoses[i].severity = "moderate" THEN "fair"
    ELSE IF \E i \in 1..Len(diagnoses) : diagnoses[i].severity = "severe"
         THEN "needs_attention"
    ELSE "good"

\* hasSevere ? 'needs_attention' : hasModerate ? 'fair' : 'good'
overallStatus(diagnoses) ==
    IF \E i \in 1..Len(diagnoses) : diagnoses[i].severity = "severe"
    THEN "needs_attention"
    ELSE IF \E i \in 1..Len(diagnoses) : diagnoses[i].severity = "moderate" THEN "fair"
    ELSE "good"

ROMs == {39, 40, 44, 45, 49, 50, 70}

\* metrics at and around every threshold
Metrics ==
    [rightKneeROM : ROMs,
     leftKneeROM : ROMs,
     asymmetryScore : {10, 11, 15, 16},
     lateralStabilityScore : {250, 251, 375, 376},
     weightDistributionScore : {15, 16, 25, 26},
     averageWeights : {<<40, 60>>, <<50, 50>>, <<60, 40>>}]

\* GaitMetrics (the fields the diagnosis reads)
GaitMetrics(m) ==
    [rightKneeROM |-> m.rightKneeROM,
     leftKneeROM |-> m.leftKneeROM,
     asymmetryScore |-> m.asymmetryScore,
     lateralStabilityScore |-> m.lateralStabilityScore,
     weightDistributionScore |-> m.weightDistributionScore,
     averageLeftWeight |-> m.averageWeights[1],
     averageRightWeight |-> m.averageWeights[2]]

\* ---------------------------------------------------------------------
\* GaitAnalyzer.recommendExercises

\* a RecommendedExercise
Exercise(exerciseId, exerciseName, reason, priority) ==
    [exerciseId |-> exerciseId, exerciseName |-> exerciseName,
     reason |-> reason, priority |-> priority]

\* the two exerciseMap.set calls of each case of the switch, in their order
candidates(type) ==
    IF type \in {"LIMITED_ROM_RIGHT", "LIMITED_ROM_LEFT"} THEN
        <<Exercise("1", "Heel Slides",
                   "Improves knee flexion range of motion through controlled movement",
                   "high"),
          Exercise("5", "Short Arc Quads",
                   "Strengthens quadriceps while working through limited ROM",
                   "high")>>
    ELSE IF type = "ASYMMETRIC_GAIT" THEN
        <<Exercise("3", "Straight Leg Raises",
                   "Builds unilateral strength to correct muscle imbalances",
                   "medium"),
          Exercise("2", "Quad Sets",
                   "Improves muscle activation symmetry",
                   "medium")>>
    ELSE IF type = "UNSTABLE_KNEE" THEN
        <<Exercise("6", "Hamstring Curls",
                   "Strengthens hamstrings for better knee stability and control",
                   "high"),
          Exercise("2", "Quad Sets",
                   "Improves muscle control and joint stability",
                   "medium")>>
    ELSE IF type = "WEIGHT_IMBALANCE" THEN
        <<Exercise("3", "Straight Leg Raises",
                   "Improves single-leg strength to correct weight distribution imbalance",
                   "high"),
          Exercise("1", "Heel Slides",
                   "Helps restore balanced movement patterns",
                   "medium")>>
    ELSE <<>>

\* const priorityOrder = { high: 3, medium: 2, low: 1 }
priorityOrder(priority) ==
    IF priority = "high" THEN 3 ELSE IF priority = "medium" THEN 2 ELSE 1

\* variant: a set that keeps the stored entry when its priority is higher
exerciseMapSetHighest(map, entry) ==
    IF \E i \in 1..Len(map) : map[i].exerciseId = entry.exerciseId
    THEN LET i == CHOOSE k \in 1..Len(map) : map[k].exerciseId = entry.exerciseId
         IN  IF priorityOrder(map[i].priority) > priorityOrder(entry.priority)
             THEN map
             ELSE [map EXCEPT ![i] = entry]
    ELSE Append(map, entry)

\* exerciseMap.set(id, entry): a Map keeps a key at the position of its first
\* insertion and replaces its value
exerciseMapSet(map, entry) ==
    IF \E i \in 1..Len(map) : map[i].exerciseId = entry.exerciseId
    THEN LET i == CHOOSE k \in 1..Len(map) : map[k].exerciseId = entry.exerciseId
         IN  [map EXCEPT ![i] = entry]
    ELSE Append(map, entry)

RECURSIVE setAll(_, _)
\* the set calls of one diagnosis
setAll(map, entries) ==
    IF entries = <<>> THEN map
    ELSE setAll(exerciseMapSet(map, Head(entries)), Tail(entries))

RECURSIVE forEachDiagnosis(_, _)
\* diagnoses.forEach(diagnosis => switch (diagnosis.type) ...)
forEachDiagnosis(map, diagnoses) ==
    IF diagnoses = <<>> THEN map
    ELSE forEachDiagnosis(setAll(map, candidates(Head(diagnoses).type)),
                          Tail(diagnoses))

\* variant: the recommendations left in the order the map holds them
insertionOrder(recommendations) == recommendations

\* recommendations.sort by descending priorityOrder; the sort is stable
sortByPriority(recommendations) ==
    SelectSeq(recommendations, LAMBDA e : priorityOrder(e.priority) = 3)
    \o SelectSeq(recommendations, LAMBDA e : priorityOrder(e.priority) = 2)
    \o SelectSeq(recommendations, LAMBDA e : priorityOrder(e.priority) = 1)

\* recommendExercises(diagnoses)
recommendExercises(diagnoses) ==
    sortByPriority(forEachDiagnosis(<<>>, diagnoses))

\* an analyzer and the metrics of a session
DiagnosisInit ==
    /\ ServiceInit
    /\ stateCallbacks = <<>>
    /\ dataCallbacks = <<>>
    /\ seen = [cb \in StateCbs |-> NoState]
    /\ MapperInit
    /\ sensorHistory = <<>>
    /\ weightHistory = [left |-> <<>>, right |-> <<>>]
    /\ lastPelvisPitch = 0
    /\ stepCount = 0
    /\ given \in {GaitMetrics(m) : m \in Metrics}
    /\ returned = "none"
    /\ gevent = "init"
    /\ PlayerInit
    /\ CodecInit

\* generateDiagnosis(metrics)
GenerateDiagnosis ==
    /\ returned' = generateDiagnosis(given)
    /\ gevent' = "generateDiagnosis"
    /\ UNCHANGED <<sensorHistory, weightHistory, lastPelvisPitch, stepCount, given>>

\* analyze(), the four analyses having returned the metrics
Analyze ==
    /\ returned' = [metrics |-> given,
                    diagnoses |-> generateDiagnosis(given),
                    recommendations |->
                        recommendExercises(generateDiagnosis(given)),
                    overallStatus |-> overallStatus(generateDiagnosis(given))]
    /\ gevent' = "analyze"
    /\ UNCHANGED <<sensorHistory, weightHistory, lastPelvisPitch, stepCount, given>>

DiagnosisNext ==
    \/ GenerateDiagnosis /\ UNCHANGED <<btVars, mapperVars, playerVars, codecVars>>
    \/ Analyze /\ UNCHANGED <<btVars, mapperVars, playerVars, codecVars>>

DiagnosisSpec == DiagnosisInit /\ [][DiagnosisNext]_vars

\* the mapper fed with decoded packets
MapperNext ==
    \/ Receive /\ UNCHANGED <<btVars, gaitVars, playerVars, codecVars>>
    \/ Process /\ UNCHANGED <<btVars, gaitVars, playerVars, codecVars>>
    \/ Calibrate /\ UNCHANGED <<btVars, gaitVars, playerVars, codecVars>>
    \/ ClearCalibration /\ UNCHANGED <<btVars, gaitVars, playerVars, codecVars>>

MapperSpec == Init /\ [][MapperNext]_vars

\* the mapper fed with a stream of packets longer than its smoothing window
WindowNext ==
    \/ Smooth /\ UNCHANGED <<btVars, gaitVars, playerVars, codecVars>>
    \/ ClearCalibration /\ UNCHANGED <<btVars, gaitVars, playerVars, codecVars>>

WindowSpec == Init /\ [][WindowNext]_vars

----------------------------------------------------------------------------
(* Properties of the connection manager *)

BackoffSchedule == <<1000, 2000, 4000, 8000, 10000>>

DisconnectReturned == event \in {"disconnect.return", "disconnect.again"}

ConnectReturned == event \in {"connect.ok", "reconnect.ok"}

\* C1: counting the runs of onDisconnected since the last successful connect
\* (the attempt counter running up from 0), the 1st to 5th run schedule a
\* reconnect timer of 1000, 2000, 4000, 8000 and 10000 ms, and the 6th run
\* schedules no timer and shows the terminal "Reconnection Failed" toast.
C1_BackoffSchedule ==
    \A i \in 1..Len(dropLog) :
        IF i <= Len(BackoffSchedule)
        THEN dropLog[i] = [delay |-> BackoffSchedule[i], terminal |-> FALSE]
        ELSE dropLog[i] = [delay |-> 0, terminal |-> TRUE]

\* six runs of onDisconnected without a successful connect in between
C1_SixthDrop == Len(dropLog) = TerminalDrop /\ event = "drop"

\* C2: when disconnect() has returned, no reconnect timer is pending.
C2_DisconnectCancelsReconnect == DisconnectReturned => PendingTimers = 0

\* C3: a reconnect attempt that fails is followed by another scheduled attempt
\* or, once the attempts are used up, by the terminal notification.
C3_FailedReconnectRetries ==
    event = "reconnect.failed" =>
        \/ PendingTimers > 0
        \/ (dropLog # <<>> /\ Last(dropLog).terminal)

\* C4: no state passed to the state subscribers or returned by
\* getConnectionState() has isConnected and isConnecting both true.
C4_OneModeAtATime ==
    \A s \in Range(emitted) \cup {getConnectionState} :
        ~(s.isConnected /\ s.isConnecting)

\* C8: a registered state callback was last called with the current state.
C8_SubscriberHasCurrentState ==
    \A cb \in Range(stateCallbacks) : seen[cb] = getConnectionState

\* a subscriber registered before a connect() succeeded
C8_Witness ==
    /\ stateCallbacks # <<>>
    /\ event = "reconnect.ok"
    /\ seen["s1"].isConnected

DisconnectedState ==
    [isConnected |-> FALSE, isConnecting |-> FALSE,
     deviceName |-> Undefined, error |-> Undefined]

\* C9: when disconnect() returns the state is disconnected with device name and
\* error cleared, also when it is called again right after it returned.
C9_DisconnectResets == DisconnectReturned => getConnectionState = DisconnectedState

\* disconnect() called twice in a row after the link had been up
C9_Witness == event = "disconnect.again" /\ reconnectAttempts > 0

\* C10: when connect() has succeeded, also from the reconnect timer, the attempt
\* counter is 0, and the first drop after it is scheduled with 1000 ms.
C10_SuccessResetsAttempts ==
    /\ ConnectReturned => reconnectAttempts = 0
    /\ dropLog # <<>> => dropLog[1].delay = BackoffSchedule[1]

\* a connect() started by the reconnect timer has succeeded
C10_Witness == event = "reconnect.ok" /\ getConnectionState.isConnected

\* connect() has thrown: without a device, or from its catch block
ConnectThrew == event \in {"connect.nodevice", "connect.failed", "reconnect.failed"}

\* C11: when connect() has failed, the state is disconnected with an error
\* message set, and that is the state every state subscriber was last given.
C11_FailedConnectShowsError ==
    ConnectThrew =>
        /\ ~getConnectionState.isConnected
        /\ ~getConnectionState.isConnecting
        /\ getConnectionState.error # Undefined
        /\ \A cb \in Range(stateCallbacks) : seen[cb].error # Undefined

\* C28: once disconnect() has returned, the connection state stays disconnected
\* until the application calls requestDevice() or connect() again, also when a
\* connect() entered from the reconnect timer was suspended on GATT I/O while
\* disconnect() ran: as long as such a call is in flight no step connects.
C28_StaysDisconnected ==
    [][(\E o \in ops : o.by = "timer" /\ o.outlived) => ~state'.isConnected]_vars

\* C33: at most one reconnect timer is pending at any time, and one drop of
\* the link increments the attempt counter by exactly one while attempts are
\* left, also when requestDevice() has been called more than once for the
\* device.
C33_OneTimerOneIncrement ==
    /\ [](PendingTimers <= 1)
    /\ [][(event' = "drop" /\ reconnectAttempts < maxReconnectAttempts) =>
              reconnectAttempts' = reconnectAttempts + 1]_vars

----------------------------------------------------------------------------
(* Properties of the packet dispatch *)

\* the callbacks a decoded packet is due to: every listener's run of the handler
\* calls the registered callbacks in registration order
Due ==
    [i \in 1..(Len(dataCallbacks) * charListeners) |->
        dataCallbacks[((i - 1) % Len(dataCallbacks)) + 1]]

\* C5: a notification that fails to decode calls no data subscriber, leaves the
\* connection state as it was and calls no state subscriber; the well-formed
\* packet after it is delivered to every data subscriber.
C5_DecodeFailureIsLocal ==
    [][/\ (event' = "notify" /\ outcome' \in DecodeErrors) =>
            /\ delivered' = <<>>
            /\ state' = state
            /\ seen' = seen
            /\ emitted' = <<>>
       /\ (event' = "notify" /\ outcome' = "packet" /\ previousFailed') =>
            delivered' = Due']_vars

\* a well-formed packet delivered right after one that failed to decode
C5_Witness ==
    /\ event = "notify"
    /\ outcome = "packet"
    /\ previousFailed
    /\ Len(delivered) = 2

\* C7: a decoded packet is delivered, in the step that decodes it, to the
\* registered data subscribers in registration order; no other step delivers
\* anything, and a callback removed by its handle is not called.
C7_OrderedDelivery ==
    /\ delivered = IF event = "notify" /\ outcome = "packet" THEN Due ELSE <<>>
    /\ \A cb \in Range(delivered) : cb \notin unsubscribed

\* d2 registered before d1, or left of <<d1, d2>> after d1's handle was called
C7_Witness ==
    /\ event = "notify"
    /\ outcome = "packet"
    /\ \/ delivered = <<"d2", "d1">>
       \/ delivered = <<"d2">> /\ unsubscribed = {"d1"}

\* C32: a data subscriber that throws while handling a packet does not keep
\* the subscribers registered after it from receiving that packet, and does
\* not change the connection state: in a dispatch in which a callback throws,
\* every registered callback is called once by each listener, in order.
C32_ThrowingSubscriberIsLocal ==
    [][event' = "notify.threw" =>
          /\ delivered' = Due'
          /\ state' = state
          /\ seen' = seen
          /\ emitted' = <<>>]_vars

\* the sequence without its i-th element
Without(s, i) == SubSeq(s, 1, i - 1) \o SubSeq(s, i + 1, Len(s))

\* C39: an unsubscribe handle removes only the registration that returned
\* it: a step that takes registrations out of the data registry takes out
\* exactly one and leaves the others, a second registration of the same
\* callback among them, in their order.
C39_HandleRemovesOneRegistration ==
    [][Len(dataCallbacks') < Len(dataCallbacks) =>
          \E i \in 1..Len(dataCallbacks) : dataCallbacks' = Without(dataCallbacks, i)]_vars

----------------------------------------------------------------------------
(* Properties of the mapper *)

\* C6: processSensorPacket leaves the packet it is given as it was decoded,
\* and two calls on the same packet with smoothing disabled and the same
\* calibration return the same readings
C6_ProcessLeavesInputUnchanged ==
    /\ packet = original
    /\ \A i, j \in 1..Len(results) :
          (~results[i].enableSmoothing /\ ~results[j].enableSmoothing)
              => results[i].sensors = results[j].sensors

\* C12: applyCalibration returns the inverse of the stored offset composed
\* with the reading, the inverse offset on the left, and the reading itself
\* when no offset is stored for the sensor.
C12_InverseOffsetOnTheLeft ==
    mevent = "applyCalibration" =>
        LET r == results[1]
        IN  r.value = IF r.sensorId \in DOMAIN calibrationOffsets
                      THEN multiply(invert(calibrationOffsets[r.sensorId]), r.reading)
                      ELSE r.reading

\* the transport has become disconnected: disconnect() returned or the link dropped
LinkEnded == event \in {"disconnect.return", "disconnect.again", "drop"}

\* C13: a step of the connection manager that ends the link, by disconnect()
\* or by a drop, leaves no calibration offset stored.
C13_DisconnectClearsCalibration ==
    [][(btVars' # btVars /\ LinkEnded') => calibrationOffsets' = EmptyMap]_vars

InBand(q) ==
    /\ ~HasNaN(q)
    /\ 8100 <= SumOfSquares(q)
    /\ SumOfSquares(q) <= 12100

\* C15: isValidPacket returns true exactly when each of the five readings has
\* a magnitude within 0.1 of 1, whichever sensor carries a reading that has not.
C15_ValidIffAllInBand ==
    mevent = "isValidPacket" =>
        (results[1].valid <=> \A k \in SensorIds : InBand(packet[k]))

----------------------------------------------------------------------------
(* Properties of the gait analyzer *)

\* C16: collectGaitData on a packet with a reading whose magnitude is not
\* within 0.1 of 1 changes neither the session history, the weight history,
\* the step count nor the remembered pitch, and returns the step count.
C16_InvalidPacketIsNoOp ==
    [][(gevent' = "collectGaitData"
          /\ \E k \in SensorIds : ~InBand(given'.sensors[k])) =>
            /\ UNCHANGED <<sensorHistory, weightHistory, stepCount, lastPelvisPitch>>
            /\ returned' = stepCount]_vars

\* the diagnoses of the given type in a list
OfType(diagnoses, type) ==
    {diagnoses[i] : i \in {j \in 1..Len(diagnoses) : diagnoses[j].type = type}}

\* one of the four checks triggers on the metrics
Triggers(m) ==
    \/ m.rightKneeROM < 50
    \/ m.leftKneeROM < 50
    \/ m.asymmetryScore > 10
    \/ m.lateralStabilityScore > 250
    \/ m.weightDistributionScore > 15

\* C17: generateDiagnosis returns a Normal diagnosis exactly when none of the
\* four checks triggers, and then it returns nothing else.
C17_NormalOnlyAlone ==
    gevent = "generateDiagnosis" =>
        /\ (OfType(returned, "NORMAL") # {}) <=> ~Triggers(given)
        /\ (OfType(returned, "NORMAL") # {}) => Len(returned) = 1

\* C18: generateDiagnosis returns a WeightImbalance diagnosis exactly when the
\* weight distribution score is above 15, moderate above 25 and mild
\* otherwise, and its affected side is the heavier side: right when the
\* average right load is above the average left load, left otherwise.
C18_WeightImbalanceNamesHeavierSide ==
    gevent = "generateDiagnosis" =>
        LET found == OfType(returned, "WEIGHT_IMBALANCE")
            heavier == IF given.averageRightWeight > given.averageLeftWeight
                       THEN "right" ELSE "left"
        IN  /\ (found # {}) <=> given.weightDistributionScore > 15
            /\ \A d \in found :
                  /\ d.severity = IF given.weightDistributionScore > 25
                                  THEN "moderate" ELSE "mild"
                  /\ d.affectedSide = heavier

\* C19: for each leg generateDiagnosis returns a LimitedROM diagnosis for that
\* side exactly when the leg's ROM is below 50, severe below 40, moderate from
\* 40 and below 45, mild from 45 and below 50.
C19_LimitedROMPerLeg ==
    gevent = "generateDiagnosis" =>
        \A leg \in {<<"LIMITED_ROM_RIGHT", "right", given.rightKneeROM>>,
                     <<"LIMITED_ROM_LEFT", "left", given.leftKneeROM>>} :
            LET found == OfType(returned, leg[1])
                rom == leg[3]
            IN  /\ (found # {}) <=> rom < 50
                /\ \A d \in found :
                      /\ d.affectedSide = leg[2]
                      /\ d.severity = "severe" <=> rom < 40
                      /\ d.severity = "moderate" <=> (40 <= rom /\ rom < 45)
                      /\ d.severity = "mild" <=> (45 <= rom /\ rom < 50)

\* a right knee ROM of 39 diagnosed as severe and a left knee ROM of 70 not
\* diagnosed
C19_Witness ==
    /\ gevent = "generateDiagnosis"
    /\ given.rightKneeROM = 39
    /\ given.leftKneeROM = 70
    /\ \E d \in OfType(returned, "LIMITED_ROM_RIGHT") : d.severity = "severe"
    /\ OfType(returned, "LIMITED_ROM_LEFT") = {}

\* the severities of a list of diagnoses
Severities(diagnoses) == {diagnoses[i].severity : i \in 1..Len(diagnoses)}

\* C20: analyze() reports needs_attention when a diagnosis is severe, fair
\* when none is severe and one is moderate, and good otherwise.
C20_OverallStatus ==
    gevent = "analyze" =>
        LET sev == Severities(returned.diagnoses)
        IN  /\ returned.diagnoses = generateDiagnosis(returned.metrics)
            /\ "severe" \in sev => returned.overallStatus = "needs_attention"
            /\ ("severe" \notin sev /\ "moderate" \in sev) => returned.overallStatus = "fair"
            /\ ("severe" \notin sev /\ "moderate" \notin sev) => returned.overallStatus = "good"

\* an analysis with a severe and a moderate diagnosis
C20_Witness ==
    /\ gevent = "analyze"
    /\ {"severe", "moderate"} \subseteq Severities(returned.diagnoses)
    /\ returned.overallStatus = "needs_attention"

\* ---------------------------------------------------------------------
\* recommendExercises on lists of diagnoses

MaxDiagnoses == 3

DiagnosisTypes ==
    {"LIMITED_ROM_RIGHT", "LIMITED_ROM_LEFT", "ASYMMETRIC_GAIT", "UNSTABLE_KNEE",
     "WEIGHT_IMBALANCE", "NORMAL"}

\* lists of diagnoses; recommendExercises reads their type only
DiagnosisLists ==
    UNION {[1..n -> {Diagnosis(t, IF t = "NORMAL" THEN "normal" ELSE "mild",
                               Undefined, "none") : t \in DiagnosisTypes}]
           : n \in 0..MaxDiagnoses}

RecommendInit ==
    /\ ServiceInit
    /\ stateCallbacks = <<>>
    /\ dataCallbacks = <<>>
    /\ seen = [cb \in StateCbs |-> NoState]
    /\ MapperInit
    /\ sensorHistory = <<>>
    /\ weightHistory = [left |-> <<>>, right |-> <<>>]
    /\ lastPelvisPitch = 0
    /\ stepCount = 0
    /\ given \in DiagnosisLists
    /\ returned = "none"
    /\ gevent = "init"
    /\ PlayerInit
    /\ CodecInit

\* recommendExercises(diagnoses)
RecommendExercises ==
    /\ returned' = recommendExercises(given)
    /\ gevent' = "recommendExercises"
    /\ UNCHANGED <<sensorHistory, weightHistory, lastPelvisPitch, stepCount, given>>

RecommendNext ==
    \/ RecommendExercises /\ UNCHANGED <<btVars, mapperVars, playerVars, codecVars>>

RecommendSpec == RecommendInit /\ [][RecommendNext]_vars

\* the entries the diagnoses of a list assign to an exercise id, as pairs of
\* the diagnosis' position and the entry
Assigned(diagnoses, id) ==
    UNION {LET c == candidates(diagnoses[i].type)
           IN  {<<i, c[k]>> : k \in {k \in 1..Len(c) : c[k].exerciseId = id}}
           : i \in 1..Len(diagnoses)}

\* C21: the entry of an exercise in the result of recommendExercises has the
\* highest of the priorities the diagnoses of the input assign to it.
C21_KeepsHighestPriority ==
    gevent = "recommendExercises" =>
        \A n \in 1..Len(returned) :
            \A a \in Assigned(given, returned[n].exerciseId) :
                priorityOrder(returned[n].priority) >= priorityOrder(a[2].priority)

\* the exercise ids of a list of recommendations
ExerciseIds(recommendations) ==
    {recommendations[n].exerciseId : n \in 1..Len(recommendations)}

\* C22: recommendExercises returns at most one entry per exercise id; the
\* entry of an exercise carries the priority and the reason of the last
\* diagnosis of the input that assigns it; a NORMAL diagnosis contributes no
\* exercise.
C22_LastWriteWins ==
    gevent = "recommendExercises" =>
        /\ \A n, k \in 1..Len(returned) :
              returned[n].exerciseId = returned[k].exerciseId => n = k
        /\ \A n \in 1..Len(returned) :
              LET assigned == Assigned(given, returned[n].exerciseId)
              IN  /\ assigned # {}
                  /\ \A a \in assigned :
                        (\A b \in assigned : b[1] <= a[1]) =>
                            /\ returned[n].priority = a[2].priority
                            /\ returned[n].reason = a[2].reason
        /\ \A id \in {"1", "2", "3", "5", "6"} :
              Assigned(given, id) # {} => id \in ExerciseIds(returned)
        /\ returned = recommendExercises(SelectSeq(given, LAMBDA d : d.type # "NORMAL"))
        /\ (\A i \in 1..Len(given) : given[i].type = "NORMAL") => returned = <<>>

\* limited ROM, then a NORMAL entry, then a weight imbalance: Heel Slides is
\* returned once, with the weight imbalance's medium priority and reason
C22_Witness ==
    /\ gevent = "recommendExercises"
    /\ Len(given) = 3
    /\ given[1].type = "LIMITED_ROM_RIGHT"
    /\ given[2].type = "NORMAL"
    /\ given[3].type = "WEIGHT_IMBALANCE"
    /\ \E n \in 1..Len(returned) :
          /\ returned[n].exerciseId = "1"
          /\ returned[n].priority = "medium"
          /\ returned[n].reason = "Helps restore balanced movement patterns"
    /\ Len(returned) = 3

----------------------------------------------------------------------------
(* ExercisePlayer: the repetition detector *)

\* The data callback is created by an effect and closes over the state values
\* of the render that ran the effect. React re-runs the effect, unsubscribing
\* that callback and subscribing a new one, after a render in which
\* exercisePhase, isSensorConnected, repState or currentSet has changed; the
\* packets notified before that still reach the old callback. The callback
\* defers its logic to the continuation of a dynamic import, which runs after
\* the callback has returned. State setters are applied in the order of the
\* calls, an updater function receiving the value the setters before it left.

MaxFed == 4           \* valid packets processed during the live phase
MaxPending == 2       \* continuations pending at the same time
ExerciseReps == 1     \* exercise.reps
ExerciseSets == 2     \* exercise.sets

Tenths == 10

\* knee angles in degrees, as calculateJointAngle returns them
Angles == {10, 18, 90, 95, 125}

\* a packet whose readings have magnitude 1, and one with a reading of
\* magnitude 0
ValidSensors == [k \in SensorIds |-> UnitReading]

InvalidSensors == [k \in SensorIds |-> IF k = "pelvis" THEN Quat(0, 0, 0, 0) ELSE UnitReading]

\* the packets notified, each with the knee angle calculateJointAngle gives
\* for its processed readings
PlayerData ==
    {[sensors |-> ValidSensors, kneeAngle |-> a] : a \in Angles}
    \cup {[sensors |-> InvalidSensors, kneeAngle |-> 95]}

\* exerciseDefinitions[id]?.targetAngle || 90
targetAngle(def) == IF def = 0 THEN 90 ELSE def

\* targetAngle * 0.3, in tenths of a degree
flexedThreshold(target) == target * 3

\* Math.min(targetAngle + 30, targetAngle * 1.5), in tenths of a degree
extendedThreshold(target) == Min((target + 30) * Tenths, target * 15)

\* repState === 'extended' && kneeAngle > extendedThreshold
goesFlexed(captured, kneeAngle, target) ==
    captured = "extended" /\ kneeAngle * Tenths > extendedThreshold(target)

\* else: repState === 'flexed' && kneeAngle < flexedThreshold
goesExtended(captured, kneeAngle, target) ==
    /\ ~goesFlexed(captured, kneeAngle, target)
    /\ captured = "flexed"
    /\ kneeAngle * Tenths < flexedThreshold(target)

\* variant: a counted rep leaves the detector flexed
stateAfterRepFlexed == "flexed"

\* setRepState('extended') of the branch that counts a rep
stateAfterRep == "extended"

\* the values the effect's callback closes over
Closure ==
    [exercisePhase |-> exercisePhase, isSensorConnected |-> isSensorConnected,
     repState |-> repState, currentSet |-> currentSet]

\* the demo timer reaches 0
DemoTimer ==
    /\ exercisePhase = "demo"
    /\ exercisePhase' = "countdown"
    /\ counted' = FALSE
    /\ UNCHANGED <<definition, isSensorConnected, repState, currentSet, currentRep,
                   lastKneeAngle, sensorData, subscribed, continuations, exceeded>>

\* the countdown timer reaches 0
CountdownTimer ==
    /\ exercisePhase = "countdown"
    /\ exercisePhase' = "live"
    /\ counted' = FALSE
    /\ UNCHANGED <<definition, isSensorConnected, repState, currentSet, currentRep,
                   lastKneeAngle, sensorData, subscribed, continuations, exceeded>>

\* SensorConnection reports a connection change: setIsSensorConnected
ConnectionChange ==
    /\ isSensorConnected' = ~isSensorConnected
    /\ counted' = FALSE
    /\ UNCHANGED <<definition, exercisePhase, repState, currentSet, currentRep,
                   lastKneeAngle, sensorData, subscribed, continuations, exceeded>>

\* the effect runs again after a render that changed one of its dependencies
Resubscribe ==
    /\ subscribed # Closure
    /\ subscribed' = Closure
    /\ counted' = FALSE
    /\ UNCHANGED <<definition, exercisePhase, isSensorConnected, repState, currentSet,
                   currentRep, lastKneeAngle, sensorData, continuations, exceeded>>

\* the service calls the subscribed data callback with a packet
Deliver ==
    \E data \in PlayerData :
        /\ sensorData' = data
        /\ IF subscribed.exercisePhase = "live" /\ subscribed.isSensorConnected
           THEN /\ Len(continuations) < MaxPending
                /\ samples + Len(continuations) < MaxFed
                /\ continuations' =
                     Append(continuations, [closure |-> subscribed, data |-> data])
           ELSE UNCHANGED continuations
        /\ counted' = FALSE
        /\ UNCHANGED <<definition, exercisePhase, isSensorConnected, repState, currentSet,
                       currentRep, lastKneeAngle, subscribed, exceeded>>

\* setCurrentRep((prev) => ...) and the setters the updater calls
CountRep(closure) ==
    IF currentRep + 1 <= ExerciseReps
       THEN /\ currentRep' = currentRep + 1
            /\ UNCHANGED <<currentSet, exercisePhase>>
       ELSE IF closure.currentSet < ExerciseSets
            THEN /\ currentSet' = closure.currentSet + 1
                 /\ currentRep' = 0
                 /\ UNCHANGED exercisePhase
            ELSE /\ exercisePhase' = "complete"
                 /\ UNCHANGED <<currentSet, currentRep>>

\* the continuation of the oldest pending callback runs
Continue ==
    /\ continuations # <<>>
    /\ continuations' = Tail(continuations)
    /\ LET closure == Head(continuations).closure
           data == Head(continuations).data
           kneeAngle == data.kneeAngle
           target == targetAngle(definition)
       IN  IF ~isValidPacket(data.sensors)
           THEN /\ counted' = FALSE
                /\ UNCHANGED <<smoothingBuffer, samples, repState, currentSet,
                               currentRep, exercisePhase, lastKneeAngle, exceeded>>
           ELSE /\ smoothingBuffer' = processBuffers(calibrationOffsets, smoothingBuffer,
                                                     data.sensors, TRUE)
                /\ samples' = samples + 1
                /\ IF goesFlexed(closure.repState, kneeAngle, target)
                   THEN /\ repState' = "flexed"
                        /\ counted' = FALSE
                        /\ UNCHANGED <<currentSet, currentRep, exercisePhase>>
                   ELSE IF goesExtended(closure.repState, kneeAngle, target)
                   THEN /\ repState' = stateAfterRep
                        /\ counted' = TRUE
                        /\ CountRep(closure)
                   ELSE /\ counted' = FALSE
                        /\ UNCHANGED <<repState, currentSet, currentRep, exercisePhase>>
                /\ lastKneeAngle' = kneeAngle
                /\ exceeded' =
                     IF goesExtended(closure.repState, kneeAngle, target) THEN FALSE
                     ELSE exceeded \/ kneeAngle * Tenths > extendedThreshold(target)
    /\ UNCHANGED <<definition, isSensorConnected, sensorData, subscribed>>
    /\ UNCHANGED <<calibrationOffsets, packet, original, results, mevent>>

\* an exercise with target angle 60 or 90 is opened
PlayerStart ==
    /\ ServiceInit
    /\ stateCallbacks = <<>>
    /\ dataCallbacks = <<>>
    /\ seen = [cb \in StateCbs |-> NoState]
    /\ MapperInit
    /\ GaitInit
    /\ \E def \in {60, 90} : Mounted(def)
    /\ CodecInit

PlayerNext ==
    \/ DemoTimer /\ UNCHANGED <<btVars, mapperVars, gaitVars, codecVars>>
    \/ CountdownTimer /\ UNCHANGED <<btVars, mapperVars, gaitVars, codecVars>>
    \/ ConnectionChange /\ UNCHANGED <<btVars, mapperVars, gaitVars, codecVars>>
    \/ Resubscribe /\ UNCHANGED <<btVars, mapperVars, gaitVars, codecVars>>
    \/ Deliver /\ UNCHANGED <<btVars, mapperVars, gaitVars, codecVars>>
    \/ Continue /\ UNCHANGED <<btVars, gaitVars, codecVars>>

PlayerSpec == PlayerStart /\ [][PlayerNext]_vars

\* a continuation runs the detector on a valid packet in this step
Feeds ==
    /\ continuations # <<>>
    /\ continuations' = Tail(continuations)
    /\ isValidPacket(Head(continuations).data.sensors)

\* the knee angle fed in this step, in tenths of a degree
FedAngle == Head(continuations).data.kneeAngle * 10

\* min(target + 30, target * 1.5) and target * 0.3 in tenths of a degree, for
\* the target angle of the exercise played
ExtendedLimit == Min(10 * (definition + 30), 15 * definition)

FlexedLimit == 3 * definition

\* C23: the detector starts extended; a fed angle moves it from extended to
\* flexed exactly when it is above extendedThreshold and from flexed to
\* extended exactly when it is below flexedThreshold; a repetition is counted
\* at each flexed-to-extended transition and at no other moment.
C23_DetectorTransitions ==
    /\ repState = "extended"
    /\ [][/\ Feeds =>
              /\ repState = "extended" =>
                    ((repState' = "flexed") <=> FedAngle > ExtendedLimit)
              /\ repState = "flexed" =>
                    ((repState' = "extended") <=> FedAngle < FlexedLimit)
              /\ counted' <=> (repState = "flexed" /\ repState' = "extended")
          /\ ~Feeds => (~counted' /\ repState' = repState)]_vars

C27_OneRepPerTransition ==
    [][counted' => (repState = "flexed" /\ repState' = "extended")]_vars

\* C30: when a repetition is counted an angle above extendedThreshold has been
\* fed since the repetition counted before it, and an angle between the two
\* thresholds leaves the detector state unchanged.
C30_Hysteresis ==
    [][/\ counted' => exceeded
       /\ (Feeds /\ FlexedLimit <= FedAngle /\ FedAngle <= ExtendedLimit) =>
             repState' = repState]_vars

----------------------------------------------------------------------------
(* BluetoothService: parseQuaternion *)

\* JSON values. Numbers are in hundredths; NaN is what parseFloat gives for a
\* text that does not start with a number.

MaxParts == 4         \* comma separated parts of a quaternion string

Num(v) == [type |-> "number", value |-> v]

Text(t) == [type |-> "string", text |-> t]

JsonNull == [type |-> "null"]

JsonUndefined == [type |-> "undefined"]

\* the parts a quaternion string splits into: texts of the numbers 0.5 and 0,
\* and a text that is not a number
Parts == {[numeric |-> TRUE, value |-> 50], [numeric |-> TRUE, value |-> 0],
          [numeric |-> FALSE]}

\* a string field, as the parts data.split(',') returns
QuaternionStrings ==
    UNION {[1..n -> Parts] : n \in 1..MaxParts}

\* the values a component of an object field can have; a missing component
\* reads as undefined
Components == {Num(50), Num(0), Text("abc"), JsonNull, JsonUndefined}

QuaternionObjects == [qw : Components, qx : Components, qy : Components, qz : Components]

\* the values of a sensN field of the legacy JSON packet
JsonFields ==
    {[type |-> "string", parts |-> p] : p \in QuaternionStrings}
    \cup {[type |-> "object", fields |-> o] : o \in QuaternionObjects}
    \cup {Num(50), JsonNull, JsonUndefined, [type |-> "boolean", truth |-> TRUE]}

\* parseFloat(part)
parseFloat(part) == IF part.numeric THEN Num(part.value) ELSE Num(NaN)

\* parts[i] of data.split(',').map(parseFloat)
partAt(parts, i) == IF i <= Len(parts) THEN parseFloat(parts[i]) ELSE JsonUndefined

\* a value that || replaces by its right operand
Falsy(v) ==
    \/ v.type \in {"undefined", "null"}
    \/ v.type = "number" /\ v.value \in {0, NaN}
    \/ v.type = "string" /\ v.text = ""
    \/ v.type = "boolean" /\ ~v.truth

\* v || d
OrDefault(v, d) == IF Falsy(v) THEN Num(d) ELSE v

JsonIdentity == [qw |-> Num(100), qx |-> Num(0), qy |-> Num(0), qz |-> Num(0)]

\* parseQuaternion(data); typeof null is 'object', and reading a property of
\* null throws
parseQuaternion(data) ==
    IF data.type = "string"
    THEN [qw |-> OrDefault(partAt(data.parts, 1), 100),
          qx |-> OrDefault(partAt(data.parts, 2), 0),
          qy |-> OrDefault(partAt(data.parts, 3), 0),
          qz |-> OrDefault(partAt(data.parts, 4), 0)]
    ELSE IF data.type = "null" THEN [throws |-> "TypeError"]
    ELSE IF data.type = "object"
    THEN [qw |-> OrDefault(data.fields.qw, 100),
          qx |-> OrDefault(data.fields.qx, 0),
          qy |-> OrDefault(data.fields.qy, 0),
          qz |-> OrDefault(data.fields.qz, 0)]
    ELSE JsonIdentity

\* a legacy JSON packet arrives with some value in a sensN field
QuaternionInit ==
    /\ ServiceInit
    /\ stateCallbacks = <<>>
    /\ dataCallbacks = <<>>
    /\ seen = [cb \in StateCbs |-> NoState]
    /\ MapperInit
    /\ GaitInit
    /\ PlayerInit
    /\ field \in JsonFields
    /\ decoded = [called |-> FALSE]

\* parseQuaternion(rawData.sensN)
ParseQuaternion ==
    /\ decoded' = [called |-> TRUE, result |-> parseQuaternion(field)]
    /\ UNCHANGED field

QuaternionNext ==
    \/ ParseQuaternion /\ UNCHANGED <<btVars, mapperVars, gaitVars, playerVars>>

QuaternionSpec == QuaternionInit /\ [][QuaternionNext]_vars

\* a field with a numeric parse failure: a string with a part that is missing
\* or not a number, an object with a component that is missing or not a
\* number, or a value that is neither
ParseFailure(data) ==
    IF data.type = "string"
    THEN Len(data.parts) < 4 \/ \E i \in 1..Len(data.parts) : i <= 4 /\ ~data.parts[i].numeric
    ELSE IF data.type = "object"
    THEN \E k \in {"qw", "qx", "qy", "qz"} : data.fields[k].type # "number"
    ELSE TRUE

\* C25: a quaternion field of the legacy JSON packet with a numeric parse
\* failure decodes to the identity quaternion (1, 0, 0, 0).
C25_ParseFailureGivesIdentity ==
    (decoded.called /\ ParseFailure(field)) => decoded.result = JsonIdentity

\* a field that carries four numbers, in either form
FourNumbers(data) ==
    IF data.type = "string"
    THEN Len(data.parts) = 4 /\ \A i \in 1..4 : data.parts[i].numeric
    ELSE /\ data.type = "object"
         /\ \A k \in {"qw", "qx", "qy", "qz"} : data.fields[k].type = "number"

\* the four numbers the field carries
Encoded(data) ==
    IF data.type = "string"
    THEN [qw |-> Num(data.parts[1].value), qx |-> Num(data.parts[2].value),
          qy |-> Num(data.parts[3].value), qz |-> Num(data.parts[4].value)]
    ELSE data.fields

\* the smoothing window of a sensor
WindowOf(buffers, sensorId) ==
    IF sensorId \in DOMAIN buffers THEN buffers[sensorId] ELSE <<>>

\* the last bufferSize elements of a sequence
MostRecent(s) ==
    IF Len(s) > bufferSize THEN SubSeq(s, Len(s) - bufferSize + 1, Len(s)) ELSE s

\* C35: each sensor's smoothing window is a FIFO of capacity 5: it never holds
\* more than 5 samples; a smoothed packet appends its reading to the window
\* of each sensor and, when that makes 6, the oldest one leaves; processing
\* with smoothing disabled leaves every window as it was; clearCalibration()
\* empties all windows.
C35_WindowIsFifo ==
    [][/\ \A k \in DOMAIN smoothingBuffer' : Len(smoothingBuffer'[k]) <= bufferSize
       /\ (mevent' = "process" /\ results'[Len(results')].enableSmoothing) =>
            \A k \in SensorIds :
                WindowOf(smoothingBuffer', k) =
                    MostRecent(Append(WindowOf(smoothingBuffer, k),
                                      applyCalibration(calibrationOffsets,
                                                       original'[k], k)))
       /\ (mevent' = "process" /\ ~results'[Len(results')].enableSmoothing) =>
            smoothingBuffer' = smoothingBuffer
       /\ mevent' = "clear" => smoothingBuffer' = EmptyMap]_vars

\* a sixth reading has been pushed into a window whose oldest reading differed
\* from the newer ones
C35_Witness ==
    /\ mevent = "process"
    /\ samples > bufferSize
    /\ Len(smoothingBuffer["pelvis"]) = bufferSize
    /\ smoothingBuffer["pelvis"][1] # smoothingBuffer["pelvis"][bufferSize]
    /\ smoothingBuffer["pelvis"] # smoothingBuffer["left_shin"]

\* C37: the list recommendExercises returns is sorted descending by priority
\* (high before medium before low) for every list of diagnoses, and it is
\* empty when the only diagnosis is Normal.
C37_SortedByPriority ==
    gevent = "recommendExercises" =>
        /\ \A i, j \in 1..Len(returned) :
               i < j => priorityOrder(returned[i].priority)
                            >= priorityOrder(returned[j].priority)
        /\ (Len(given) = 1 /\ given[1].type = "NORMAL") => returned = <<>>

\* a list whose map holds a medium entry before a high one
C37_Witness ==
    /\ gevent = "recommendExercises"
    /\ Len(returned) = 3
    /\ returned # forEachDiagnosis(<<>>, given)
    /\ returned[1].priority = "high"
    /\ returned[3].priority = "medium"

\* C38: during a live exercise the rep counter never exceeds the prescribed
\* reps and the set counter never exceeds the prescribed sets, and the
\* repetition that brings the count to the prescribed reps advances the set
\* counter or, in the last set, completes the exercise.
C38_SetOfPrescribedReps ==
    [][/\ currentRep' <= ExerciseReps
       /\ currentSet' <= ExerciseSets
       /\ (counted' /\ currentRep + 1 = ExerciseReps) =>
            \/ currentSet' = currentSet + 1
            \/ exercisePhase' = "complete"]_vars

\* C34: a quaternion field of the legacy JSON packet that carries four
\* numbers, as an object {qw,qx,qy,qz} or as a string "qw,qx,qy,qz", decodes
\* to exactly those four components (so both forms of the same numbers decode
\* alike), also when a component is 0.
C34_JsonFormsPreserveValues ==
    (decoded.called /\ FourNumbers(field)) => decoded.result = Encoded(field)

----------------------------------------------------------------------------
(* BluetoothService: parseBinaryPacket on the bytes of a packet *)

\* A DataView is the sequence of its bytes.  A float32 is kept as the four
\* bytes of its IEEE-754 pattern, most significant first: 0, 1, 0.5, -1,
\* 0.70710677, 50 and 100.
Float32s ==
    [zero |-> <<0, 0, 0, 0>>, one |-> <<63, 128, 0, 0>>, half |-> <<63, 0, 0, 0>>,
     minusOne |-> <<191, 128, 0, 0>>, root |-> <<63, 53, 4, 243>>,
     fifty |-> <<66, 72, 0, 0>>, hundred |-> <<66, 200, 0, 0>>]

\* readings of the five sensors: all at rest, and five different poses
WireSensors ==
    LET f == Float32s
    IN  { [k \in SensorIds |-> Quat(f.one, f.zero, f.zero, f.zero)],
          [pelvis |-> Quat(f.root, f.root, f.zero, f.zero),
           right_thigh |-> Quat(f.root, f.zero, f.root, f.zero),
           right_shin |-> Quat(f.root, f.zero, f.zero, f.root),
           left_thigh |-> Quat(f.half, f.half, f.half, f.half),
           left_shin |-> Quat(f.zero, f.minusOne, f.zero, f.zero)] }

\* the packets put on the wire
WirePackets ==
    [timestamp : {0, 1, 258, 16909060},
     sensors : WireSensors,
     left_wt : {Float32s.zero, Float32s.fifty},
     right_wt : {Float32s.fifty, Float32s.hundred},
     battery : {0, 87, 100},
     status : {"ok", "warning", "error"}]

\* a uint32 in little-endian byte order
Uint32Bytes(n) ==
    <<n % 256, (n \div 256) % 256, (n \div 65536) % 256, (n \div 16777216) % 256>>

\* a float32 in little-endian byte order
Float32Bytes(f) == <<f[4], f[3], f[2], f[1]>>

QuaternionBytes(q) ==
    Float32Bytes(q.qw) \o Float32Bytes(q.qx) \o Float32Bytes(q.qy) \o Float32Bytes(q.qz)

StatusCode(status) ==
    IF status = "ok" THEN 0 ELSE IF status = "warning" THEN 1 ELSE 2

\* the 94-byte layout of a packet as the device sends it
EncodePacket(p) ==
    Uint32Bytes(p.timestamp)
    \o QuaternionBytes(p.sensors["pelvis"])
    \o QuaternionBytes(p.sensors["right_thigh"])
    \o QuaternionBytes(p.sensors["right_shin"])
    \o QuaternionBytes(p.sensors["left_thigh"])
    \o QuaternionBytes(p.sensors["left_shin"])
    \o Float32Bytes(p.left_wt)
    \o Float32Bytes(p.right_wt)
    \o <<p.battery, StatusCode(p.status)>>

\* variant: a timestamp read in big-endian byte order
getUint32BigEndian(view, offset) ==
    view[offset + 4] + 256 * view[offset + 3] + 65536 * view[offset + 2]
    + 16777216 * view[offset + 1]

\* view.getUint32(offset, true)
getUint32(view, offset) ==
    view[offset + 1] + 256 * view[offset + 2] + 65536 * view[offset + 3]
    + 16777216 * view[offset + 4]

\* view.getFloat32(offset, true)
getFloat32(view, offset) ==
    <<view[offset + 4], view[offset + 3], view[offset + 2], view[offset + 1]>>

\* view.getUint8(offset)
getUint8(view, offset) == view[offset + 1]

\* the four getFloat32 reads of one reading
readQuaternion(view, offset) ==
    Quat(getFloat32(view, offset), getFloat32(view, offset + 4),
         getFloat32(view, offset + 8), getFloat32(view, offset + 12))

\* the packet parseBinaryPacket hands to the data subscribers
parseBinaryView(view) ==
    LET statusCode == getUint8(view, 93)
    IN  [timestamp |-> getUint32(view, 0),
         sensors |-> [pelvis |-> readQuaternion(view, 4),
                      right_thigh |-> readQuaternion(view, 20),
                      right_shin |-> readQuaternion(view, 36),
                      left_thigh |-> readQuaternion(view, 52),
                      left_shin |-> readQuaternion(view, 68)],
         left_wt |-> getFloat32(view, 84),
         right_wt |-> getFloat32(view, 88),
         battery |-> getUint8(view, 92),
         status |-> IF statusCode = 0 THEN "ok"
                    ELSE IF statusCode = 1 THEN "warning" ELSE "error"]

\* a packet is about to be sent by the device
BinaryInit ==
    /\ ServiceInit
    /\ stateCallbacks = <<>>
    /\ dataCallbacks = <<>>
    /\ seen = [cb \in StateCbs |-> NoState]
    /\ MapperInit
    /\ GaitInit
    /\ PlayerInit
    /\ field \in WirePackets
    /\ decoded = [called |-> FALSE]

\* the notification with the bytes of the packet arrives: handleDataReceived
\* takes a value of 94 bytes to parseBinaryPacket
ParseBinary ==
    /\ ~decoded.called
    /\ LET view == EncodePacket(field)
       IN  decoded' = IF Len(view) = BinaryLength
                      THEN [called |-> TRUE, result |-> parseBinaryView(view)]
                      ELSE [called |-> FALSE]
    /\ UNCHANGED field

BinaryNext ==
    \/ ParseBinary /\ UNCHANGED <<btVars, mapperVars, gaitVars, playerVars>>

BinarySpec == BinaryInit /\ [][BinaryNext]_vars

PitchOf(i) == eulerX(sensorHistory[i].sensors["pelvis"])

\* the accepted packets, other than the first, whose pitch is more than 0.15
\* rad above the pitch of the accepted packet before them
RisingEdges ==
    {i \in 2..Len(sensorHistory) :
        Greater(Minus(PitchOf(i), PitchOf(i - 1)), 150)}

\* C26: reset() leaves no packet in the session, a step count of 0 and an
\* empty weight history, and the first packet collected into an empty session
\* does not count as a step.
C26_ResetClearsSession ==
    [][/\ gevent' \in {"reset", "reset.steps"} =>
            /\ Len(sensorHistory') = 0
            /\ stepCount' = 0
            /\ weightHistory'.left = <<>>
            /\ weightHistory'.right = <<>>
       /\ (sensorHistory = <<>> /\ gevent' = "collectGaitData") =>
            (returned' = 0 /\ stepCount' = 0)]_vars

\* a session in which a step was counted has just been reset
C26_Witness ==
    /\ gevent = "reset.steps"
    /\ sensorHistory = <<>>
    /\ stepCount = 0

\* C29: the step count is the number of accepted packets, other than the
\* first, whose pelvis pitch is more than 0.15 rad above the pitch of the
\* accepted packet before them, and the remembered pitch is the pitch of the
\* last accepted packet.
C29_StepsAreRisingEdges ==
    /\ stepCount = Cardinality(RisingEdges)
    /\ sensorHistory # <<>> => lastPelvisPitch = PitchOf(Len(sensorHistory))

\* three packets accepted: the pitch rises by 1.287 rad, then falls by 1.006 rad
C29_Witness ==
    /\ Len(sensorHistory) = 3
    /\ PitchOf(1) = 0
    /\ PitchOf(2) = 1287
    /\ PitchOf(3) = 281
    /\ stepCount = 1
    /\ lastPelvisPitch = 281

----------------------------------------------------------------------------
(* Properties of analyze() *)

Analyzed == gevent = "analyze"

FiniteNonNegative(a) == IsFinite(a) /\ a >= 0

\* C31: every numeric metric analyze() returns is a finite number >= 0, and
\* the weight distribution score lies in 0..100 (here in hundredths of a
\* percent), whatever the session holds: no packet, or heel loads all zero.
C31_MetricsFinite ==
    Analyzed =>
        /\ \A f \in {"rightKneeROM", "leftKneeROM", "asymmetryScore",
                      "lateralStabilityScore", "weightDistributionScore",
                      "averageRightKnee", "averageLeftKnee",
                      "averageRightWeight", "averageLeftWeight"} :
               FiniteNonNegative(returned[f])
        /\ returned.weightDistributionScore <= 100 * Hundredths

\* the joint angles of one leg over the session
AnglesOf(leg) ==
    {calculateJointAngle(sensorHistory[i].sensors[leg \o "_thigh"],
                         sensorHistory[i].sensors[leg \o "_shin"]) :
        i \in 1..Len(sensorHistory)}

\* r is the largest minus the smallest of the angles
Spread(r, angles) ==
    \E hi \in angles, lo \in angles :
        /\ r = hi - lo
        /\ \A a \in angles : lo <= a /\ a <= hi

\* C36: in the metrics of analyze() each knee ROM is the largest minus the
\* smallest joint angle of that leg over the session, and asymmetryScore is
\* |rightKneeROM - leftKneeROM| of those metrics.
C36_ROMIsMaxMinusMin ==
    (Analyzed /\ sensorHistory # <<>>) =>
        /\ Spread(returned.rightKneeROM, AnglesOf("right"))
        /\ Spread(returned.leftKneeROM, AnglesOf("left"))
        /\ returned.asymmetryScore = Abs(returned.rightKneeROM - returned.leftKneeROM)

\* a session whose ROM difference is not the difference of its average angles
C36_Witness ==
    /\ Analyzed
    /\ Len(sensorHistory) = 3
    /\ returned.leftKneeROM > 0
    /\ returned.rightKneeROM > 0
    /\ returned.asymmetryScore > 0
    /\ returned.asymmetryScore # Abs(returned.averageRightKnee - returned.averageLeftKnee)

====
